---- MODULE Spec2Model ----
(***************************************************************************)
(* A model of the beeorm lazy-flush consumer (LazyFlushConsumer.Digest and *)
(* handleEvents), of the event broker's consumer groups, of the engines'   *)
(* local cache, of the table schema's registration, of the flush of one    *)
(* entity, of the engine's handles and of the metrics and foreign keys     *)
(* plugins.                                                                *)
(*                                                                         *)
(* SpecLazy        : one Digest of one delivered batch by the lazy         *)
(*                   consumer.                                             *)
(* SpecStream      : publishing, consuming and statistics of one stream    *)
(*                   with one consumer group.                              *)
(* SpecCache       : the local cache pool as the engines of one registry   *)
(*                   use it.                                               *)
(* SpecEntityCache : loading and flushing cached rows by id.               *)
(* SpecSchema      : tableSchema.init, GetColumns and getCacheKey on one   *)
(*                   entity type.                                          *)
(* SpecFlush       : tracking, changing and flushing one entity.           *)
(* SpecEngine      : the mysql, local cache and redis handles one engine   *)
(*                   hands out.                                            *)
(* SpecMetrics     : the metrics plugin handling the queries of one        *)
(*                   goroutine.                                            *)
(* SpecMetricsConcurrent : the metrics plugin handling the queries of two  *)
(*                   goroutines.                                           *)
(* SpecForeignKeys : the foreign keys plugin on one entity and its table.  *)
(***************************************************************************)
EXTENDS Integers, Sequences, FiniteSets, TLC

\* ------------------------------------------------------------------ bounds

\* the largest number of events one delivered batch holds
MaxEvents == 2
\* the largest number of flush records serialized in one event
MaxPerEvent == 2
\* the largest number of flush records of one delivered batch
MaxRecords == 3
\* the number of resolvers that may be registered
MaxResolvers == 2
\* the largest number of entries published to the stream
MaxPublished == 3
\* the largest batch size Consume is called with
MaxBatch == 3
\* the number of entries the local cache pool is registered with
LocalCacheLimit == 1
\* the largest ordinal a unique or index tag gives a column
MaxOrdinal == 2
\* the largest number of fields of an entity of basic types
MaxFields == 2
\* the largest number of fields of a struct nested in an entity
MaxSubFields == 1
\* the largest number of statements the flushes of one entity issue
MaxStatements == 3
\* the largest duration of a logged query, in microseconds
MaxDuration == 3
\* the largest limit of slow queries the plugin is initialised with
MaxSlowLimit == 2
\* the largest limit of metrics the plugin is initialised with
MaxMetricsLimit == 2
\* the largest number of calls of the log handler
MaxHandled == 3

\* ------------------------------------------------------------------ constants

\* the Max of a cachedQueryDefinition built from a query tag
MaxCachedRows == 50000
\* the limit of the request cache GetLocalCache creates
RequestCacheLimit == 5000

\* ------------------------------------------------------------------ state

VARIABLES
    lazyFlushQueryErrorResolvers, \* LazyFlushConsumer.lazyFlushQueryErrorResolvers
    events,         \* the batch handed to the handler: events[k] = the records of event k
    lazyEvents,     \* the records handleEvents receives, as Digest concatenated them
    pc,             \* position of the consumer: idle, batch, isolated, returned, done, panicked
    idx,            \* the loop variable i of the replay loop, counted from 1
    rec,            \* the value recovered by the outer deferred function
    executed,       \* log of f.execute calls, one entry per record reached
    resolverCalls,  \* log of the resolver invocations
    acks,           \* log of the acknowledgments, in the order they were issued
    panicValue,     \* the value that left handleEvents as a panic
    queued,         \* cache setters queued by a flusher and not flushed yet
    remoteCache,    \* records whose cache setters reached the remote cache
    stream,         \* the entries of the stream, in append order
    published,      \* how many times Publish was called
    groupCreated,   \* whether the consumer group exists
    lastDelivered,  \* the group's last-delivered position in the stream
    pending,        \* the group's pending entries: delivered, not acknowledged
    cpc,            \* position of the Consume call: idle, reading, handling
    count,          \* the batch size the running Consume was called with
    batch,          \* the entries handed to the handler
    pendingAtStart, \* the pending entries when the last Consume was called
    deliveredByCall,\* the entries the last Consume delivered to its handler
    consumeResult,  \* how the last Consume ended: none, returned, panicked
    op,             \* the broker operation performed last
    stats,          \* the result of the last statistics call
    engines,        \* the engines created from the validated registry
    localCache,     \* Engine.localCache of each engine, for the pool "default"
    redisCache,     \* the remote cache: key -> cached value
    db,             \* the table of the entity: id -> stored row
    lastCall,       \* the cache or entity operation performed last, with its result
    schemaCall,     \* the schema operation performed last, with its input and result
    tracked,        \* one tracked entity: its field values, its snapshot, its deletion mark
    flushCall,      \* the last Flush of the entity: what it found and the records it built
    statements,     \* the number of statements the flushes have issued
    engineRegistry, \* the pools registered in the engine's validated registry
    handleMaps,     \* Engine.dbs, localCache, redis and redisSearch of one engine
    handlesMade,    \* how many handles the engine has made of each kind and code
    returned,       \* the handles the Get calls have returned, by kind and code
    getCall,        \* the last Get call of the engine, with its outcome
    options,        \* Plugin.options
    queryStats,     \* mySQLLogHandler.queries: bucket -> Counter, Time, SlowQueries
    slowQueries,    \* mySQLLogHandler.slowQueries, the tree of the slow queries
    slowQueriesCounter, \* mySQLLogHandler.slowQueriesCounter
    mySQLMetricsLimits, \* mySQLLogHandler.mySQLMetricsLimits, the buckets left
    mutex,          \* mySQLLogHandler.m: the goroutine that holds it, or ""
    hpc,            \* the position of each goroutine in Handle
    hlog,           \* the log entry of each running Handle
    hslow,          \* the local variable slow of each running Handle
    handled,        \* how many times Handle was called
    passed,         \* the non-lazy queries passed to Handle since the last clear, by duration
    fallen,         \* the queries that fell into each existing bucket since the last clear
    fkSchema,       \* the entity schema the foreign keys plugin has initialised
    sqlSchema       \* the TableSQLSchemaDefinition after the pass of the plugin

lazyVars == << lazyFlushQueryErrorResolvers, events, lazyEvents, pc, idx, rec,
               executed, resolverCalls, acks, panicValue, queued, remoteCache >>

streamVars == << stream, published, groupCreated, lastDelivered, pending, cpc,
                 count, batch, pendingAtStart, deliveredByCall, consumeResult,
                 op, stats >>

cacheVars == << engines, localCache, redisCache, db, lastCall >>

schemaVars == << schemaCall >>

flushVars == << tracked, flushCall, statements >>

engineVars == << engineRegistry, handleMaps, handlesMade, returned, getCall >>

metricsVars == << options, queryStats, slowQueries, slowQueriesCounter,
                  mySQLMetricsLimits, mutex, hpc, hlog, hslow, handled, passed, fallen >>

foreignKeyVars == << fkSchema, sqlSchema >>

vars == << lazyVars, streamVars, cacheVars, schemaVars, flushVars, engineVars,
           metricsVars, foreignKeyVars >>

\* what the lazy consumer leaves alone
nonLazyVars == << streamVars, cacheVars, schemaVars, flushVars, engineVars,
    metricsVars, foreignKeyVars >>

\* what the event broker leaves alone
nonStreamVars == << lazyVars, cacheVars, schemaVars, flushVars, engineVars,
    metricsVars, foreignKeyVars >>

\* what the local and remote caches leave alone
nonCacheVars == << lazyVars, streamVars, schemaVars, flushVars, engineVars,
    metricsVars, foreignKeyVars >>

\* what the table schema leaves alone
nonSchemaVars == << lazyVars, streamVars, cacheVars, flushVars, engineVars,
    metricsVars, foreignKeyVars >>

\* what the flush of an entity leaves alone
nonFlushVars == << lazyVars, streamVars, cacheVars, schemaVars, engineVars,
    metricsVars, foreignKeyVars >>

\* what the metrics plugin leaves alone
nonMetricsVars == << lazyVars, streamVars, cacheVars, schemaVars, flushVars, engineVars,
    foreignKeyVars >>

\* what the foreign keys plugin leaves alone
nonForeignKeyVars == << lazyVars, streamVars, cacheVars, schemaVars, flushVars, engineVars,
    metricsVars >>

\* what the Get calls of an engine leave alone
nonEngineVars == << lazyVars, streamVars, cacheVars, schemaVars, flushVars,
    metricsVars, foreignKeyVars >>

\* ------------------------------------------------------------------ helpers

Range(s) == { s[k] : k \in DOMAIN s }

Min(a, b) == IF a < b THEN a ELSE b

RECURSIVE SumTo(_, _)
SumTo(s, n) == IF n = 0 THEN 0 ELSE SumTo(s, n - 1) + s[n]

\* the error values a panic can carry: its kind, the record whose statement
\* raised it and the execution (batch or isolated) that raised it
NoError == [kind |-> "none", record |-> 0, phase |-> "none"]

Error(kind, r, phase) == [kind |-> kind, record |-> r, phase |-> phase]

\* what the relational store can answer to one record
Outcomes == {"ok", "mysql", "other"}

\* the shapes of a delivered batch: how many records each event carries
BatchShapes ==
    { s \in UNION { [1..n -> 0..MaxPerEvent] : n \in 1..MaxEvents } :
        SumTo(s, Len(s)) <= MaxRecords }

\* the events of a batch of the given shape; the records are numbered in the
\* order they were published to the stream
EventsOf(shape) ==
    [k \in 1..Len(shape) |->
        [j \in 1..shape[k] |-> SumTo(shape, k - 1) + j]]

\* the event of the batch that carried record r
Owner(r) == CHOOSE k \in 1..Len(events) : r \in Range(events[k])

\* ------------------------------------------------------------------ lazy consumer

\* a type assertion that accepts every recovered value
IsMySQLErrorAlways(v) == TRUE

\* the type assertion rec.(*mysql.MySQLError)

IsMySQLError(v) == v.kind = "mysql"

\* a concatenation that puts each event's records in front of the earlier ones
RECURSIVE DigestConcatPrepend(_)
DigestConcatPrepend(evs) ==
    IF evs = << >> THEN << >>
    ELSE evs[Len(evs)] \o DigestConcatPrepend(SubSeq(evs, 1, Len(evs) - 1))

\* Digest's handler: lazyEvents = append(lazyEvents, data...) for each event
RECURSIVE DigestConcat(_)
DigestConcat(evs) ==
    IF evs = << >> THEN << >>
    ELSE DigestConcat(SubSeq(evs, 1, Len(evs) - 1)) \o evs[Len(evs)]

\* the index handleEvents hands to events[...] for the record at position i
AckTarget(i) == i

\* the error handleEvents hands to the resolvers (mySQLError of line 63)
ResolverError(outer, inner) == outer

\* the executions f.execute logs for records 1..n of rs that all succeed
OkEntries(rs, n, phase) ==
    [k \in 1..n |-> [record |-> rs[k], phase |-> phase, out |-> "ok"]]

InitLazy ==
    /\ lazyFlushQueryErrorResolvers = << >>
    /\ events = << >>
    /\ lazyEvents = << >>
    /\ pc = "idle"
    /\ idx = 0
    /\ rec = NoError
    /\ executed = << >>
    /\ resolverCalls = << >>
    /\ acks = << >>
    /\ panicValue = NoError
    /\ queued = {}
    /\ remoteCache = {}

RegisterLazyFlushQueryErrorResolver(resolver) ==
    /\ pc = "idle"
    /\ resolver \notin Range(lazyFlushQueryErrorResolvers)
    /\ lazyFlushQueryErrorResolvers' = Append(lazyFlushQueryErrorResolvers, resolver)
    /\ UNCHANGED << events, lazyEvents, pc, idx, rec, executed, resolverCalls,
                    acks, panicValue, queued, remoteCache >>
    /\ UNCHANGED nonLazyVars

\* Consume delivers a batch and calls Digest's handler, which unserializes
\* every event and calls handleEvents
Digest(shape) ==
    /\ pc = "idle"
    /\ events' = EventsOf(shape)
    /\ lazyEvents' = DigestConcat(EventsOf(shape))
    /\ pc' = "batch"
    /\ UNCHANGED << lazyFlushQueryErrorResolvers, idx, rec, executed,
                    resolverCalls, acks, panicValue, queued, remoteCache >>
    /\ UNCHANGED nonLazyVars

\* the body of handleEvents: one flusher executes all the records; on
\* success the cache setters are flushed, on a panic the deferred function
\* either re-panics or starts the replay loop
BatchSucceeds ==
    /\ executed' = executed \o OkEntries(lazyEvents, Len(lazyEvents), "batch")
    /\ remoteCache' = remoteCache \cup Range(lazyEvents)
    /\ queued' = {}
    /\ pc' = "returned"
    /\ UNCHANGED << rec, idx, panicValue >>

BatchFails(k, kind) ==
    LET err == Error(kind, lazyEvents[k], "batch") IN
    /\ executed' = executed \o OkEntries(lazyEvents, k - 1, "batch")
                     \o << [record |-> lazyEvents[k], phase |-> "batch", out |-> kind] >>
    /\ queued' = queued \cup { << "batch", lazyEvents[j] >> : j \in 1..(k - 1) }
    /\ rec' = err
    /\ remoteCache' = remoteCache
    /\ IF IsMySQLError(err)
         THEN /\ pc' = "isolated"
              /\ idx' = 1
              /\ panicValue' = panicValue
         ELSE /\ pc' = "panicked"
              /\ idx' = idx
              /\ panicValue' = err

BatchExecute ==
    /\ pc = "batch"
    /\ \/ BatchSucceeds
       \/ \E k \in 1..Len(lazyEvents), kind \in Outcomes \ {"ok"} : BatchFails(k, kind)
    /\ UNCHANGED << lazyFlushQueryErrorResolvers, events, lazyEvents,
                    resolverCalls, acks >>
    /\ UNCHANGED nonLazyVars

\* events[i].Ack() followed by the next iteration of the loop, or by the
\* return of handleEvents after the last record
AckAndContinue(e) ==
    IF AckTarget(idx) \in 1..Len(events)
      THEN /\ acks' = Append(acks, [event |-> AckTarget(idx), record |-> e])
           /\ idx' = idx + 1
           /\ pc' = IF idx + 1 > Len(lazyEvents) THEN "returned" ELSE "isolated"
           /\ panicValue' = panicValue
      ELSE \* index out of range
           /\ acks' = acks
           /\ idx' = idx
           /\ pc' = "panicked"
           /\ panicValue' = Error("runtime", e, "iso")

\* the calls made to the resolvers when the first n of them are invoked and
\* only the last of these may return nil
Calls(e, err, n, accepted) ==
    [k \in 1..n |->
        [resolver |-> lazyFlushQueryErrorResolvers[k], record |-> e, err |-> err,
         result |-> IF accepted /\ k = n THEN "nil" ELSE "error"]]

IsolatedSucceeds(e) ==
    /\ executed' = Append(executed, [record |-> e, phase |-> "iso", out |-> "ok"])
    /\ queued' = queued \cup { << "iso", e >> }
    /\ resolverCalls' = resolverCalls
    /\ AckAndContinue(e)

IsolatedFails(e, kind) ==
    LET rec2 == Error(kind, e, "iso")
        n == Len(lazyFlushQueryErrorResolvers)
    IN
    /\ executed' = Append(executed, [record |-> e, phase |-> "iso", out |-> kind])
    /\ queued' = queued
    /\ IF ~IsMySQLError(rec)
         THEN /\ resolverCalls' = resolverCalls
              /\ acks' = acks
              /\ idx' = idx
              /\ pc' = "panicked"
              /\ panicValue' = rec2
         ELSE \/ \E a \in 1..n :
                   /\ resolverCalls' = resolverCalls
                                         \o Calls(e, ResolverError(rec, rec2), a, TRUE)
                   /\ AckAndContinue(e)
              \/ /\ resolverCalls' = resolverCalls
                                       \o Calls(e, ResolverError(rec, rec2), n, FALSE)
                 /\ acks' = acks
                 /\ idx' = idx
                 /\ pc' = "panicked"
                 /\ panicValue' = rec2

\* one iteration of the replay loop of the deferred function
IsolatedExecute ==
    /\ pc = "isolated"
    /\ idx \in 1..Len(lazyEvents)
    /\ \/ IsolatedSucceeds(lazyEvents[idx])
       \/ \E kind \in Outcomes \ {"ok"} : IsolatedFails(lazyEvents[idx], kind)
    /\ UNCHANGED << lazyFlushQueryErrorResolvers, events, lazyEvents, rec,
                    remoteCache >>
    /\ UNCHANGED nonLazyVars

\* the events the log of acknowledgments names
AckedEvents == { acks[k].event : k \in DOMAIN acks }

\* Consume after the handler returned: every entry of the batch that is not
\* acknowledged yet is acknowledged
ConsumeAck ==
    /\ pc = "returned"
    /\ acks' = acks \o
          SelectSeq([k \in 1..Len(events) |-> [event |-> k, record |-> 0]],
                    LAMBDA a : a.event \notin AckedEvents)
    /\ pc' = "done"
    /\ UNCHANGED << lazyFlushQueryErrorResolvers, events, lazyEvents, idx, rec,
                    executed, resolverCalls, panicValue, queued, remoteCache >>
    /\ UNCHANGED nonLazyVars

NextLazy ==
    \/ \E r \in 1..MaxResolvers : RegisterLazyFlushQueryErrorResolver(r)
    \/ \E shape \in BatchShapes : Digest(shape)
    \/ BatchExecute
    \/ IsolatedExecute
    \/ ConsumeAck

\* ------------------------------------------------------------------ event broker

NoStats == [Len |-> 0, Groups |-> {}, valid |-> FALSE]

InitStream ==
    /\ stream = << >>
    /\ published = 0
    /\ groupCreated = FALSE
    /\ lastDelivered = 0
    /\ pending = {}
    /\ cpc = "idle"
    /\ count = 0
    /\ batch = {}
    /\ pendingAtStart = {}
    /\ deliveredByCall = {}
    /\ consumeResult = "none"
    /\ op = "none"
    /\ stats = NoStats

\* XGroupCreateMkStream(stream, group, "0"): the group starts at the start
XGroupCreateMkStream ==
    /\ ~groupCreated
    /\ groupCreated' = TRUE
    /\ op' = "group"
    /\ UNCHANGED << stream, published, lastDelivered, pending, cpc, count, batch,
                    pendingAtStart, deliveredByCall, consumeResult, stats >>
    /\ UNCHANGED nonStreamVars

\* flusher.Publish followed by flusher.Flush: the entry is appended
Publish ==
    /\ published < MaxPublished
    /\ stream' = Append(stream, published + 1)
    /\ published' = published + 1
    /\ op' = "publish"
    /\ UNCHANGED << groupCreated, lastDelivered, pending, cpc, count, batch,
                    pendingAtStart, deliveredByCall, consumeResult, stats >>
    /\ UNCHANGED nonStreamVars

\* a non-blocking Consume(ctx, c, handler) is called
ConsumeStart(c) ==
    /\ cpc = "idle"
    /\ groupCreated
    /\ cpc' = "reading"
    /\ count' = c
    /\ batch' = {}
    /\ pendingAtStart' = pending
    /\ deliveredByCall' = {}
    /\ consumeResult' = "none"
    /\ op' = "consume"
    /\ UNCHANGED << stream, published, groupCreated, lastDelivered, pending, stats >>
    /\ UNCHANGED nonStreamVars

\* the entries one read delivers: up to count undelivered entries, in append order
ReadEntries(n) == { stream[k] : k \in (lastDelivered + 1)..(lastDelivered + n) }

\* Consume reads the next batch; with nothing to read the call returns
ReadBatch ==
    LET n == Min(count, Len(stream) - lastDelivered) IN
    /\ cpc = "reading"
    /\ IF n = 0
         THEN /\ cpc' = "idle"
              /\ consumeResult' = "returned"
              /\ op' = "return"
              /\ UNCHANGED << batch, pending, lastDelivered, deliveredByCall >>
         ELSE /\ cpc' = "handling"
              /\ batch' = ReadEntries(n)
              /\ pending' = pending \cup ReadEntries(n)
              /\ lastDelivered' = lastDelivered + Cardinality(ReadEntries(n))
              /\ deliveredByCall' = deliveredByCall \cup ReadEntries(n)
              /\ consumeResult' = consumeResult
              /\ op' = "read"
    /\ UNCHANGED << stream, published, groupCreated, count, pendingAtStart, stats >>
    /\ UNCHANGED nonStreamVars

\* a Consume that acknowledges nothing
AckedOnReturnNone(b) == {}

\* what Consume acknowledges when the handler returned: the whole batch
AckedOnReturn(b) == b

\* a Consume that acknowledges the batch whatever the handler did
AckedOnPanicAll(b) == b

\* what Consume acknowledges when the handler panicked: nothing
AckedOnPanic(b) == {}

\* an acknowledgment that also deletes the entries from the stream
StreamAfterAckTrimmed(b) == SelectSeq(stream, LAMBDA e : e \notin b)

\* the stream after the entries of b were acknowledged: they stay in it
StreamAfterAck(b) == stream

\* the handler returns: Consume acknowledges the batch and reads on
HandlerReturn ==
    /\ cpc = "handling"
    /\ pending' = pending \ AckedOnReturn(batch)
    /\ stream' = StreamAfterAck(AckedOnReturn(batch))
    /\ cpc' = "reading"
    /\ op' = "ack"
    /\ UNCHANGED << published, groupCreated, lastDelivered, count, batch,
                    pendingAtStart, deliveredByCall, consumeResult, stats >>
    /\ UNCHANGED nonStreamVars

\* the handler panics: the panic leaves Consume
HandlerPanic ==
    /\ cpc = "handling"
    /\ pending' = pending \ AckedOnPanic(batch)
    /\ stream' = StreamAfterAck(AckedOnPanic(batch))
    /\ cpc' = "idle"
    /\ consumeResult' = "panicked"
    /\ op' = "panic"
    /\ UNCHANGED << published, groupCreated, lastDelivered, count, batch,
                    pendingAtStart, deliveredByCall, stats >>
    /\ UNCHANGED nonStreamVars

\* the length a statistics call reports
ReportedLen == Len(stream)

\* GetStreamStatistics / GetStreamsStatistics
GetStreamStatistics ==
    /\ stats' = [Len |-> ReportedLen,
                 Groups |-> IF groupCreated
                              THEN { [Group |-> "test-group",
                                      Pending |-> Cardinality(pending)] }
                              ELSE {},
                 valid |-> TRUE]
    /\ op' = "stats"
    /\ UNCHANGED << stream, published, groupCreated, lastDelivered, pending, cpc,
                    count, batch, pendingAtStart, deliveredByCall, consumeResult >>
    /\ UNCHANGED nonStreamVars

NextStream ==
    \/ XGroupCreateMkStream
    \/ Publish
    \/ \E c \in 1..MaxBatch : ConsumeStart(c)
    \/ ReadBatch
    \/ HandlerReturn
    \/ HandlerPanic
    \/ GetStreamStatistics

\* ------------------------------------------------------------------ table schema

\* the pool names a registry or an entity tag may use
PoolNames == {"default", "second"}

\* the columns an index or a query template may name
Columns == {"Name", "Age", "FakeDelete"}

\* names related by strings.Index(":" + f): f is a proper prefix of the name
NamePrefixes == { << "Age", "AgeGroup" >> }

HasPrefix(name, f) == name = f \/ << f, name >> \in NamePrefixes

\* tableSchema.getTag on the tags of the ORM field; a missing tag reads as ""
getTag(tags, key, trueValue, defaultValue) ==
    IF key \in DOMAIN tags
    THEN IF tags[key] = "true" THEN trueValue ELSE tags[key]
    ELSE defaultValue

\* the lookup init makes for the redisCache tag
redisPoolRegistered(registry, name) == name \in registry.mysqlPools

\* the pool checks of init: the error it returns, "" when it goes on
poolError(registry, tags) ==
    LET mysqlPoolName == getTag(tags, "mysql", "default", "default")
        localCacheName == getTag(tags, "localCache", "default", "")
        redisCacheName == getTag(tags, "redisCache", "default", "")
    IN  IF mysqlPoolName \notin registry.mysqlPools
        THEN "mysql pool not found"
        ELSE IF localCacheName # "" /\ localCacheName \notin registry.localCachePools
        THEN "local cache pool not found"
        ELSE IF redisCacheName # "" /\ ~redisPoolRegistered(registry, redisCacheName)
        THEN "redis pool not found"
        ELSE ""

\* ---- query templates: a template is the sequence of its tokens
Var(name) == [kind |-> "var", name |-> name]

Text(text) == [kind |-> "text", text |-> text]

OrderBy == [kind |-> "order by"]

\* the matches of the regular expression, in order
variables(tokens) == SelectSeq(tokens, LAMBDA t : t.kind = "var")

RECURSIVE distinctNames(_, _)
distinctNames(vs, seen) ==
    IF vs = << >> THEN seen
    ELSE distinctNames(Tail(vs),
                       IF \E i \in 1..Len(seen) : seen[i] = Head(vs).name
                       THEN seen ELSE Append(seen, Head(vs).name))

\* strings.Index(queryLower, "order by"): 0 stands for -1
posOrderBy(tokens) ==
    IF \E i \in 1..Len(tokens) : tokens[i].kind = "order by"
    THEN CHOOSE i \in 1..Len(tokens) :
            /\ tokens[i].kind = "order by"
            /\ \A j \in 1..(i - 1) : tokens[j].kind # "order by"
    ELSE 0

\* strings.Index(queryOrigin, ":" + f): 0 stands for -1
posOf(tokens, f) ==
    LET hits == { i \in 1..Len(tokens) :
                    tokens[i].kind = "var" /\ HasPrefix(tokens[i].name, f) }
    IN  IF hits = {} THEN 0 ELSE CHOOSE i \in hits : \A j \in hits : i <= j

\* the query text init stores, after the placeholders became column names
storedQuery(tokens, hasFakeDelete) ==
    LET replaced == [i \in 1..Len(tokens) |->
                        IF tokens[i].kind = "var"
                        THEN [kind |-> "column", name |-> tokens[i].name]
                        ELSE tokens[i]]
    IN  IF tokens = << >>
        THEN IF hasFakeDelete THEN << Text("FakeDelete = 0 ORDER BY ID") >>
             ELSE << Text("1 ORDER BY ID") >>
        ELSE IF hasFakeDelete THEN << Text("FakeDelete = 0 AND ") >> \o replaced
        ELSE replaced

\* the cachedQueryDefinition init builds from one query or queryOne tag
cachedQueryDefinition(tokens, isOne, hasFakeDelete) ==
    LET vs == variables(tokens)
        named == distinctNames(vs, << >>)
        fields == IF hasFakeDelete /\ Len(vs) > 0 THEN Append(named, "FakeDelete")
                  ELSE named
        pos == posOrderBy(tokens)
    IN  [Max |-> IF isOne THEN 1 ELSE MaxCachedRows,
         Query |-> storedQuery(tokens, hasFakeDelete),
         TrackedFields |-> SelectSeq(fields, LAMBDA f : f # "ID"),
         QueryFields |-> SelectSeq(fields, LAMBDA f : posOf(tokens, f) < pos \/ pos = 0),
         OrderFields |-> IF pos = 0 THEN << >>
                         ELSE LET after == variables(SubSeq(tokens, pos, Len(tokens)))
                              IN  [i \in 1..Len(after) |-> after[i].name]]

\* ---- indexes: an index is its map from ordinal to column
Col(v, i) == IF i \in DOMAIN v THEN v[i] ELSE ""

len(v) == Cardinality(DOMAIN v)

\* the two maps are the same one
duplicatedWhole(v, v2) == v = v2

\* the loop that counts same: v is repeated by v2 on all the ordinals 1..len(v)
duplicated(v, v2) ==
    \A i \in 1..len(v) : i \in DOMAIN v2 /\ v2[i] = Col(v, i)

\* the number of pairs of a field and an index column that are equal
RECURSIVE validPairs(_, _)
validPairs(fields, columns) ==
    IF fields = << >> THEN 0
    ELSE Cardinality({ i \in DOMAIN columns : columns[i] = Head(fields) })
         + validPairs(Tail(fields), columns)

\* an index of as many columns as the definition has fields
coversOneByLength(columns, v) == len(columns) = Len(v.QueryFields)

\* the check of a queryOne definition against one unique index
coversOne(columns, v) ==
    /\ len(columns) = Len(v.QueryFields)
    /\ validPairs(v.QueryFields, columns) = len(columns)

\* how many order fields the index repeats, counted back from position key
RECURSIVE validOrder(_, _, _)
validOrder(columns, orderFields, key) ==
    IF orderFields = << >> THEN 0
    ELSE IF Col(columns, key) = orderFields[Len(orderFields)]
    THEN 1 + validOrder(columns, SubSeq(orderFields, 1, Len(orderFields) - 1), key - 1)
    ELSE 0

\* the check of a query definition against one index
covers(columns, v) ==
    /\ validPairs(v.QueryFields, columns) = Len(v.QueryFields)
    /\ \/ Len(v.OrderFields) = 0
       \/ LET key == IF Col(columns, len(columns)) = "FakeDelete"
                     THEN len(columns) - 1 ELSE len(columns)
          IN  validOrder(columns, v.OrderFields, key) = Len(v.OrderFields)

\* tableSchema.validateIndexes: the error it returns, "" for nil
validateIndexes(uniqueIndices, indices, cachedIndexesOne, cachedIndexes) ==
    LET all == [k \in DOMAIN uniqueIndices \cup DOMAIN indices |->
                    IF k \in DOMAIN indices THEN indices[k] ELSE uniqueIndices[k]]
    IN  IF \E k, k2 \in DOMAIN all : k # k2 /\ duplicated(all[k], all[k2])
        THEN "duplicated index"
        ELSE IF \E k \in DOMAIN cachedIndexesOne :
                    \A u \in DOMAIN uniqueIndices :
                        ~coversOne(uniqueIndices[u], cachedIndexesOne[k])
        THEN "missing unique index for cached query"
        ELSE IF \E k \in DOMAIN cachedIndexes :
                    /\ cachedIndexes[k].Query # << Text("1 ORDER BY ID") >>
                    /\ \A a \in DOMAIN all : ~covers(all[a], cachedIndexes[k])
        THEN "missing index for cached query"
        ELSE ""

\* the definitions init keeps of the templates of one kind
definitions(entity, isOne) ==
    LET keys == { k \in DOMAIN entity.queries : entity.queries[k].isOne = isOne }
    IN  [k \in keys |-> cachedQueryDefinition(entity.queries[k].tokens, isOne,
                                              entity.hasFakeDelete)]

\* tableSchema.init: the error it returns and the query definitions it stores
tableSchemaInit(registry, entity) ==
    LET err == poolError(registry, entity.tags)
        one == definitions(entity, TRUE)
        many == definitions(entity, FALSE)
    IN  IF err # ""
        THEN [err |-> err, cachedIndexesOne |-> << >>, cachedIndexes |-> << >>]
        ELSE [err |-> validateIndexes(entity.uniqueIndices, entity.indices, one, many),
              cachedIndexesOne |-> one, cachedIndexes |-> many]

\* ---- the registries and entities init is applied to
Registries ==
    [mysqlPools : SUBSET PoolNames, localCachePools : SUBSET PoolNames,
     redisPools : SUBSET PoolNames]

\* a registry with the mysql pool "default" only
DefaultRegistry ==
    [mysqlPools |-> {"default"}, localCachePools |-> {}, redisPools |-> {}]

\* the pool tags of the ORM field: a tag without a value holds "true"
TagSets ==
    UNION { [keys -> {"true", "second"}] :
                keys \in SUBSET {"mysql", "localCache", "redisCache"} }

NoTags == CHOOSE t \in TagSets : DOMAIN t = {}

\* the maps from ordinal to column a unique or index tag may build
IndexMaps ==
    UNION { [ords -> Columns] : ords \in (SUBSET (1..MaxOrdinal)) \ {{}} }

\* no index, or one index of the given name
IndexSets(name) ==
    UNION { [names -> IndexMaps] : names \in SUBSET {name} }

NoIndexes == CHOOSE s \in IndexSets("U") : DOMAIN s = {}

\* the sequences of at most n distinct elements of S
DistinctSeqs(S, n) ==
    { s \in UNION { [1..k -> S] : k \in 0..n } :
        \A i, j \in 1..Len(s) : i # j => s[i] # s[j] }

RECURSIVE FilterTokens(_)
FilterTokens(filter) ==
    IF filter = << >> THEN << >>
    ELSE << Var(Head(filter)), Text(" = ?") >>
         \o (IF Len(filter) > 1 THEN << Text(" AND ") >> ELSE << >>)
         \o FilterTokens(Tail(filter))

\* the template ":f1 = ? AND :f2 = ? ORDER BY :o1"
Template(filter, order) ==
    FilterTokens(filter)
    \o (IF order = << >> THEN << >>
        ELSE << OrderBy >> \o [i \in 1..Len(order) |-> Var(order[i])])

NoQueries == CHOOSE q \in [{} -> {<< >>}] : TRUE

Entity(tags, hasFakeDelete, uniqueIndices, indices, queries) ==
    [tags |-> tags, hasFakeDelete |-> hasFakeDelete, uniqueIndices |-> uniqueIndices,
     indices |-> indices, queries |-> queries]

\* entities that differ in their pool tags, on every registry
PoolInputs ==
    { << r, Entity(t, FALSE, NoIndexes, NoIndexes, NoQueries) >> :
        r \in Registries, t \in TagSets }

\* entities with a unique index, an index, or both, and no template
IndexInputs ==
    { << DefaultRegistry, Entity(NoTags, FALSE, u, i, NoQueries) >> :
        u \in IndexSets("U"), i \in IndexSets("I") }

\* entities with one queryOne template and at most one unique index
OneInputs ==
    { << DefaultRegistry,
         Entity(NoTags, fd, u, NoIndexes,
                [k \in {"IndexName"} |-> [isOne |-> TRUE, tokens |-> Template(f, << >>)]]) >> :
        fd \in BOOLEAN, u \in IndexSets("U"),
        f \in DistinctSeqs({"Name", "Age"}, 2) \ {<< >>} }

\* entities with one query template and at most one index
ManyInputs ==
    { << DefaultRegistry,
         Entity(NoTags, fd, NoIndexes, i,
                [k \in {"IndexAll"} |-> [isOne |-> FALSE, tokens |-> Template(f, o)]]) >> :
        fd \in BOOLEAN, i \in IndexSets("I"),
        f \in DistinctSeqs({"Name", "Age"}, 2),
        o \in DistinctSeqs({"Name", "Age", "ID"}, 1) }

\* entities with one query template whose placeholders Age and AgeGroup
\* start alike, and no index
PrefixInputs ==
    { << DefaultRegistry,
         Entity(NoTags, fd, NoIndexes, NoIndexes,
                [k \in {"IndexAge"} |-> [isOne |-> FALSE, tokens |-> Template(f, o)]]) >> :
        fd \in BOOLEAN,
        f \in DistinctSeqs({"AgeGroup", "Name"}, 2),
        o \in DistinctSeqs({"Age", "AgeGroup"}, 1) }

\* ---- fields and columns: a struct type is the sequence of its fields,
\* ---- the field of Go index i at position i + 1
Leaf(name, type, tag) ==
    [name |-> name, type |-> type, tag |-> tag, anonymous |-> FALSE, fields |-> << >>]

Struct(name, anonymous, fields) ==
    [name |-> name, type |-> "struct", tag |-> "", anonymous |-> anonymous,
     fields |-> fields]

\* the embedded beeorm.ORM, field 0 of every entity
ORM == [name |-> "ORM", type |-> "beeorm.ORM", tag |-> "", anonymous |-> TRUE,
        fields |-> << >>]

\* the list of tableFields the switch of buildTableFields puts a field in
bucket(f, prefix) ==
    IF f.tag = "ignore" THEN "ignored"
    ELSE CASE f.type = "uint64" -> "uintegers"
           [] f.type = "*uint64" -> "uintegersNullable"
           [] f.type = "int64" -> "integers"
           [] f.type = "*int64" -> "integersNullable"
           [] f.type = "string" -> IF f.tag = "enum" THEN "stringsEnums" ELSE "strings"
           [] f.type = "[]string" -> IF f.tag = "set" THEN "sliceStringsSets" ELSE "jsons"
           [] f.type = "[]uint8" -> "bytes"
           [] f.type = "bool" -> IF prefix \o f.name = "FakeDelete" THEN "fakeDelete"
                                 ELSE "booleans"
           [] f.type = "*bool" -> "booleansNullable"
           [] f.type = "float64" -> "floats"
           [] f.type = "*float64" -> "floatsNullable"
           [] f.type = "*beeorm.CachedQuery" -> "skipped"
           [] f.type = "*time.Time" -> IF f.tag = "time" THEN "timesNullable"
                                       ELSE "datesNullable"
           [] f.type = "time.Time" -> IF f.tag = "time" THEN "times" ELSE "dates"
           [] f.type = "struct" -> "structs"
           [] f.type = "*UserEntity" -> "refs"
           [] OTHER -> "jsons"

\* the Go indexes start..NumField-1 whose field went to the list, in loop order
indexesOf(t, start, prefix, list) ==
    SelectSeq([k \in 1..(Len(t) - start) |-> start + k - 1],
              LAMBDA i : bucket(t[i + 1], prefix) = list)

\* tableSchema.buildTableFields
RECURSIVE buildTableFields(_, _, _)
buildTableFields(t, start, prefix) ==
    LET of(list) == indexesOf(t, start, prefix, list)
        fake == of("fakeDelete")
        structs == of("structs")
    IN  [fields |-> t,
         prefix |-> prefix,
         uintegers |-> of("uintegers"),
         refs |-> of("refs"),
         integers |-> of("integers"),
         booleans |-> of("booleans"),
         floats |-> of("floats"),
         times |-> of("times"),
         dates |-> of("dates"),
         fakeDelete |-> IF fake = << >> THEN 0 ELSE fake[Len(fake)],
         strings |-> of("strings"),
         uintegersNullable |-> of("uintegersNullable"),
         integersNullable |-> of("integersNullable"),
         stringsEnums |-> of("stringsEnums"),
         bytes |-> of("bytes"),
         sliceStringsSets |-> of("sliceStringsSets"),
         booleansNullable |-> of("booleansNullable"),
         floatsNullable |-> of("floatsNullable"),
         timesNullable |-> of("timesNullable"),
         datesNullable |-> of("datesNullable"),
         jsons |-> of("jsons"),
         structs |-> structs,
         structsFields |->
            [k \in 1..Len(structs) |->
                LET field == t[structs[k] + 1]
                IN  buildTableFields(field.fields, 0,
                                     IF field.anonymous THEN "" ELSE field.name)]]

\* the test buildColumnNames makes before it lists the soft-delete column
fakeDeleteIdsPositive(fields) ==
    IF fields.fakeDelete > 0 THEN << fields.fakeDelete >> ELSE << >>

\* the select list of the columns ids; ' stands for the backquote
RECURSIVE selectList(_, _, _, _)
selectList(fields, subFieldPrefix, ids, isTime) ==
    IF ids = << >> THEN ""
    ELSE LET name == subFieldPrefix \o fields.fields[Head(ids) + 1].name
         IN  (IF isTime THEN ",TO_SECONDS('" \o name \o "')" ELSE ",'" \o name \o "'")
             \o selectList(fields, subFieldPrefix, Tail(ids), isTime)

\* tableFields.buildColumnNames
RECURSIVE buildColumnNames(_, _)
buildColumnNames(fields, subFieldPrefix) ==
    LET plain1 == fields.uintegers \o fields.refs \o fields.integers
                  \o fields.booleans \o fields.floats
        times1 == fields.times \o fields.dates
        plain2 == fakeDeleteIdsPositive(fields) \o fields.strings
                  \o fields.uintegersNullable \o fields.integersNullable
                  \o fields.stringsEnums \o fields.bytes \o fields.sliceStringsSets
                  \o fields.booleansNullable \o fields.floatsNullable
        times2 == fields.timesNullable \o fields.datesNullable
        plain3 == fields.jsons
        ids == plain1 \o times1 \o plain2 \o times2 \o plain3
        own == [columns |-> [k \in 1..Len(ids) |->
                                subFieldPrefix \o fields.fields[ids[k] + 1].name],
                fieldsQuery |-> selectList(fields, subFieldPrefix, plain1, FALSE)
                                \o selectList(fields, subFieldPrefix, times1, TRUE)
                                \o selectList(fields, subFieldPrefix, plain2, FALSE)
                                \o selectList(fields, subFieldPrefix, times2, TRUE)
                                \o selectList(fields, subFieldPrefix, plain3, FALSE)]
        sub(i) == LET field == fields.fields[fields.structs[i] + 1]
                  IN  buildColumnNames(fields.structsFields[i],
                                       IF field.anonymous THEN subFieldPrefix
                                       ELSE subFieldPrefix \o field.name)
        RECURSIVE withSubs(_, _)
        withSubs(acc, i) ==
            IF i > Len(fields.structs) THEN acc
            ELSE withSubs([columns |-> acc.columns \o sub(i).columns,
                           fieldsQuery |-> acc.fieldsQuery \o sub(i).fieldsQuery], i + 1)
    IN  withSubs(own, 1)

\* fmt.Sprintf("%x", sha256.Sum256(...))[0:5] of the strings the model feeds it
Sha256Table ==
    { << "UserEntity,'ID'", "3ca56" >>,
      << "UserEntity,'ID','Field74'", "9062b" >>,
      << "UserEntity,'ID','Field132'", "9062b" >>,
      << "UserEntity,'ID','Field74','Field132'", "c40ae" >>,
      << "UserEntity,'ID','Field132','Field74'", "aa61e" >>,
      << "User,'ID'", "2ef37" >>,
      << "secondUser,'ID'", "fb578" >>,
      << "secondsecondUser,'ID'", "35ebe" >> }

Sha256Hex5(s) == (CHOOSE p \in Sha256Table : p[1] = s)[2]

\* the string init hashes: the pool name unless "default", the table name, the select list
hashInput(mysqlPoolName, tableName, fieldsQuery) ==
    (IF mysqlPoolName # "default" THEN mysqlPoolName ELSE "") \o tableName \o fieldsQuery

\* tableSchema.cachePrefix as init leaves it
cachePrefix(mysqlPoolName, tableName, fieldsQuery) ==
    Sha256Hex5(hashInput(mysqlPoolName, tableName, fieldsQuery))

\* a key that leaves the prefix out
getCacheKeyOfIdOnly(prefix, id) == ":" \o ToString(id)

\* tableSchema.getCacheKey
getCacheKey(prefix, id) == prefix \o ":" \o ToString(id)

\* ---- the entity types the columns are built of
LeafSpecs ==
    { [type |-> ty, tag |-> "", name |-> ""] :
        ty \in {"uint64", "*uint64", "int64", "*int64", "string", "[]string", "[]uint8",
                "bool", "*bool", "float64", "*float64", "*beeorm.CachedQuery",
                "*time.Time", "time.Time", "*UserEntity", "*Address", "[]*Address"} }
    \cup { [type |-> "string", tag |-> "enum", name |-> ""],
           [type |-> "[]string", tag |-> "set", name |-> ""],
           [type |-> "*time.Time", tag |-> "time", name |-> ""],
           [type |-> "time.Time", tag |-> "time", name |-> ""],
           [type |-> "uint64", tag |-> "ignore", name |-> ""],
           [type |-> "bool", tag |-> "", name |-> "FakeDelete"] }

\* the field of Go index i declared as the spec says
FieldOf(spec, letter, i) ==
    Leaf(IF spec.name # "" THEN spec.name ELSE letter \o ToString(i), spec.type, spec.tag)

OneFakeDelete(specs) ==
    \A i, j \in 1..Len(specs) :
        i # j => ~(specs[i].name = "FakeDelete" /\ specs[j].name = "FakeDelete")

\* the sequences of at most n field specs, of at least least
SpecSeqs(least, n) ==
    { s \in UNION { [1..k -> LeafSpecs] : k \in least..n } : OneFakeDelete(s) }

\* entities of fields of the basic types only
FlatEntities ==
    { << ORM >> \o [i \in 1..Len(s) |-> FieldOf(s[i], "F", i)] : s \in SpecSeqs(0, MaxFields) }

\* entities with one field and one struct, embedded or named, before or after it
NestedEntities ==
    { IF first
      THEN << ORM, Struct("Sub", anonymous, [i \in 1..Len(s) |-> FieldOf(s[i], "G", i - 1)]),
              FieldOf(top, "F", 2) >>
      ELSE << ORM, FieldOf(top, "F", 1),
              Struct("Sub", anonymous, [i \in 1..Len(s) |-> FieldOf(s[i], "G", i - 1)]) >> :
        first \in BOOLEAN, anonymous \in BOOLEAN, top \in LeafSpecs,
        s \in SpecSeqs(1, MaxSubFields) }

\* the versions of UserEntity: ID and up to two more columns
UserEntities ==
    { << ORM, Leaf("ID", "uint64", "") >>
      \o [i \in 1..Len(names) |-> Leaf(names[i], types[i], "")] :
        names \in DistinctSeqs({"Field74", "Field132"}, 2),
        types \in [1..2 -> {"uint64", "string"}] }

\* the ids of the rows of UserEntity
Ids == {1, 2}

\* tableSchema.GetColumns of a registered entity
GetColumns ==
    /\ schemaCall.op = "none"
    /\ \E t \in FlatEntities \cup NestedEntities :
        /\ schemaCall' = [op |-> "GetColumns", entity |-> t,
                          out |-> buildColumnNames(buildTableFields(t, 1, ""), "")]
        /\ UNCHANGED nonSchemaVars

\* the cache key of a row of UserEntity under one version of the entity, and
\* then under the version that replaces it; the second call keeps what the
\* first returned
CacheKeyOfRow ==
    /\ \/ schemaCall.op = "none"
       \/ schemaCall.op = "getCacheKey" /\ schemaCall.before = << >>
    /\ \E t \in UserEntities, id \in Ids :
        LET built == buildColumnNames(buildTableFields(t, 1, ""), "")
            prefix == cachePrefix("default", "UserEntity", built.fieldsQuery)
            call == [columns |-> built.columns,
                     hashed |-> hashInput("default", "UserEntity", built.fieldsQuery),
                     cachePrefix |-> prefix, id |-> id, key |-> getCacheKey(prefix, id)]
        IN  /\ schemaCall' = [op |-> "getCacheKey", out |-> call,
                              before |-> IF schemaCall.op = "getCacheKey"
                                         THEN << schemaCall.out >> ELSE << >>]
            /\ UNCHANGED nonSchemaVars

\* the table names the table tag gives the entities with the one column ID
TableNames == {"User", "secondUser"}

\* the cache prefix and the key of a row of an entity with the one column ID,
\* registered with a mysql tag and a table tag, and then the same of an
\* entity with the same column and another pool or table; the second call
\* keeps what the first returned
CachePrefixOfTable ==
    /\ \/ schemaCall.op = "none"
       \/ schemaCall.op = "cachePrefix" /\ schemaCall.before = << >>
    /\ \E pool \in PoolNames, table \in TableNames, id \in Ids :
        LET built == buildColumnNames(
                        buildTableFields(<< ORM, Leaf("ID", "uint64", "") >>, 1, ""), "")
            prefix == cachePrefix(pool, table, built.fieldsQuery)
            call == [mysqlPoolName |-> pool, tableName |-> table,
                     hashed |-> hashInput(pool, table, built.fieldsQuery),
                     cachePrefix |-> prefix, id |-> id, key |-> getCacheKey(prefix, id)]
        IN  /\ schemaCall.op = "cachePrefix" =>
                    << pool, table >> # << schemaCall.out.mysqlPoolName,
                                           schemaCall.out.tableName >>
            /\ schemaCall' = [op |-> "cachePrefix", out |-> call,
                              before |-> IF schemaCall.op = "cachePrefix"
                                         THEN << schemaCall.out >> ELSE << >>]
            /\ UNCHANGED nonSchemaVars

\* the orders in which a range over the map of the fields' tags may visit them
Visits == { s \in DistinctSeqs(Columns, Cardinality(Columns)) : Len(s) = Cardinality(Columns) }

\* the field k appended once for each ordinal its unique tag gives it
RECURSIVE appended(_, _)
appended(columns, visit) ==
    IF visit = << >> THEN << >>
    ELSE [i \in 1..Cardinality({ o \in DOMAIN columns : columns[o] = Head(visit) })
            |-> Head(visit)]
         \o appended(columns, Tail(visit))

\* uniqueIndicesSimple as the loop over the tags fills it
uniqueIndicesSimple(uniqueIndices, visit) ==
    [name \in DOMAIN uniqueIndices |-> appended(uniqueIndices[name], visit)]

\* the entities with unique tags on their fields and no unique tag on ORM
UniqueInputs ==
    { Entity(NoTags, FALSE, u, NoIndexes, NoQueries) : u \in IndexSets("U") }

\* a validation of the registry and then tableSchema.GetUniqueIndexes of the
\* entity; a second validation of the same registry keeps what the first
\* returned
GetUniqueIndexes ==
    /\ \/ schemaCall.op = "none"
       \/ schemaCall.op = "GetUniqueIndexes" /\ schemaCall.before = << >>
    /\ \E entity \in UniqueInputs, visit \in Visits :
        /\ schemaCall.op = "GetUniqueIndexes" => entity = schemaCall.entity
        /\ tableSchemaInit(DefaultRegistry, entity).err = ""
        /\ schemaCall' = [op |-> "GetUniqueIndexes", entity |-> entity,
                          out |-> uniqueIndicesSimple(entity.uniqueIndices, visit),
                          before |-> IF schemaCall.op = "GetUniqueIndexes"
                                     THEN << schemaCall.out >> ELSE << >>]
        /\ UNCHANGED nonSchemaVars

InitSchema == schemaCall = [op |-> "none"]

\* registry.Validate applying tableSchema.init to one registered entity; a
\* table schema is initialised once
RegisterEntity ==
    /\ schemaCall.op = "none"
    /\ \E input \in PoolInputs \cup IndexInputs \cup OneInputs \cup ManyInputs
                     \cup PrefixInputs :
        /\ schemaCall' = [op |-> "init", registry |-> input[1], entity |-> input[2],
                          out |-> tableSchemaInit(input[1], input[2])]
        /\ UNCHANGED nonSchemaVars

NextSchema ==
    \/ RegisterEntity
    \/ GetColumns
    \/ CacheKeyOfRow
    \/ GetUniqueIndexes
    \/ CachePrefixOfTable

\* ------------------------------------------------------------------ engines and the local cache

\* the engines the validated registry creates
Engines == {"engine1", "engine2"}

\* the keys and values of the local cache
Keys == {"test_get_set", "test_get", "m_get_1"}

Values == {"hello", "hello2"}

\* a row that is not in the table, a key that is not in the remote cache
NoRow == "nil"

\* the cache prefix of the version of UserEntity the engines work with
UserEntityPrefix == cachePrefix("default", "UserEntity", ",'ID','Field74'")

\* the cache keys of the rows of UserEntity
EntityKeys == { getCacheKey(UserEntityPrefix, id) : id \in Ids }

\* an engine that has not used the local cache pool yet
NoLocalCache == [has |-> FALSE, lru |-> << >>]

lruHas(lru, key) == \E i \in 1..Len(lru) : lru[i].key = key

lruValue(lru, key) == lru[CHOOSE i \in 1..Len(lru) : lru[i].key = key].value

lruRemove(lru, key) == SelectSeq(lru, LAMBDA en : en.key # key)

\* lru.Get moves the entry it finds to the front
lruGet(lru, key) ==
    IF lruHas(lru, key)
    THEN << [key |-> key, value |-> lruValue(lru, key)] >> \o lruRemove(lru, key)
    ELSE lru

\* lru.Add puts the entry in front and drops the oldest one over the limit
lruAdd(lru, key, value) ==
    LET added == << [key |-> key, value |-> value] >> \o lruRemove(lru, key)
    IN  IF Len(added) > LocalCacheLimit THEN SubSeq(added, 1, LocalCacheLimit)
        ELSE added

RECURSIVE lruRemoveAll(_, _)
lruRemoveAll(lru, keys) ==
    IF keys = {} THEN lru
    ELSE LET k == CHOOSE x \in keys : TRUE
         IN  lruRemoveAll(lruRemove(lru, k), keys \ {k})

\* Engine.GetLocalCache: the engine's own handle, made with a new lru on first use
GetLocalCache(cache, e) ==
    IF cache[e].has THEN cache
    ELSE [cache EXCEPT ![e] = [has |-> TRUE, lru |-> << >>]]

\* a provider that is asked on every GetSet
GetSetInvokesAlways(lru, key) == TRUE

\* LocalCache.GetSet asks the provider only when the key is not cached
GetSetInvokes(lru, key) == ~lruHas(lru, key)

InitCache ==
    /\ engines = {}
    /\ localCache = [e \in Engines |-> NoLocalCache]
    /\ redisCache = [k \in EntityKeys |-> NoRow]
    /\ db = [i \in Ids |-> NoRow]
    /\ lastCall = [op |-> "none"]

\* validatedRegistry.CreateEngine
CreateEngine ==
    \E e \in Engines \ engines :
        /\ engines' = engines \cup {e}
        /\ lastCall' = [op |-> "CreateEngine", engine |-> e]
        /\ UNCHANGED << localCache, redisCache, db >>
        /\ UNCHANGED nonCacheVars

\* engine.GetLocalCache().Set(key, value)
LocalCacheSet(e, key, value) ==
    /\ e \in engines
    /\ LET cache == GetLocalCache(localCache, e)
       IN  localCache' = [cache EXCEPT ![e].lru = lruAdd(@, key, value)]
    /\ lastCall' = [op |-> "Set", engine |-> e, key |-> key, value |-> value]
    /\ UNCHANGED << engines, redisCache, db >>
    /\ UNCHANGED nonCacheVars

\* engine.GetLocalCache().Get(key)
LocalCacheGet(e, key) ==
    /\ e \in engines
    /\ LET cache == GetLocalCache(localCache, e)
           lru == cache[e].lru
       IN  /\ localCache' = [cache EXCEPT ![e].lru = lruGet(lru, key)]
           /\ lastCall' = [op |-> "Get", engine |-> e, key |-> key,
                           has |-> lruHas(lru, key),
                           result |-> IF lruHas(lru, key) THEN lruValue(lru, key)
                                      ELSE "nil"]
    /\ UNCHANGED << engines, redisCache, db >>
    /\ UNCHANGED nonCacheVars

\* engine.GetLocalCache().GetSet(key, ttl, provider), the provider returning value
LocalCacheGetSet(e, key, value) ==
    /\ e \in engines
    /\ LET cache == GetLocalCache(localCache, e)
           lru == cache[e].lru
           invoked == GetSetInvokes(lru, key)
       IN  /\ localCache' = [cache EXCEPT ![e].lru =
                                IF invoked THEN lruAdd(lru, key, value)
                                ELSE lruGet(lru, key)]
           /\ lastCall' = [op |-> "GetSet", engine |-> e, key |-> key,
                           provided |-> value, invoked |-> invoked,
                           result |-> IF invoked THEN value ELSE lruValue(lru, key)]
    /\ UNCHANGED << engines, redisCache, db >>
    /\ UNCHANGED nonCacheVars

\* engine.GetLocalCache().Remove(keys...)
LocalCacheRemove(e, keys) ==
    /\ e \in engines
    /\ LET cache == GetLocalCache(localCache, e)
       IN  localCache' = [cache EXCEPT ![e].lru = lruRemoveAll(@, keys)]
    /\ lastCall' = [op |-> "Remove", engine |-> e, keys |-> keys]
    /\ UNCHANGED << engines, redisCache, db >>
    /\ UNCHANGED nonCacheVars

NextCache ==
    \/ CreateEngine
    \/ \E e \in Engines, k \in Keys, v \in Values : LocalCacheSet(e, k, v)
    \/ \E e \in Engines, k \in Keys : LocalCacheGet(e, k)
    \/ \E e \in Engines, k \in Keys, v \in Values : LocalCacheGetSet(e, k, v)
    \/ \E e \in Engines, ks \in (SUBSET Keys) \ {{}} : LocalCacheRemove(e, ks)

\* ------------------------------------------------------------------ cached entities

\* Load and Flush of a row of UserEntity through an engine: the read is
\* cache-aside, the write removes the key of the row from the caches
LoadByID(e, id) ==
    /\ e \in engines
    /\ LET key == getCacheKey(UserEntityPrefix, id)
           cache == GetLocalCache(localCache, e)
           lru == cache[e].lru
           result == IF lruHas(lru, key) THEN lruValue(lru, key)
                     ELSE IF redisCache[key] # NoRow THEN redisCache[key]
                     ELSE db[id]
       IN  /\ localCache' = [cache EXCEPT ![e].lru =
                                IF lruHas(lru, key) THEN lruGet(lru, key)
                                ELSE IF result # NoRow THEN lruAdd(lru, key, result)
                                ELSE lru]
           /\ redisCache' = IF result # NoRow THEN [redisCache EXCEPT ![key] = result]
                            ELSE redisCache
           /\ lastCall' = [op |-> "LoadByID", engine |-> e, id |-> id, result |-> result]
    /\ UNCHANGED << engines, db >>
    /\ UNCHANGED nonCacheVars

\* engine.Flush of one dirty entity in immediate mode: row is the row it
\* leaves in the table, NoRow after a delete
Flush(e, id, row) ==
    /\ e \in engines
    /\ db[id] # row
    /\ LET key == getCacheKey(UserEntityPrefix, id)
           cache == GetLocalCache(localCache, e)
       IN  /\ db' = [db EXCEPT ![id] = row]
           /\ localCache' = [cache EXCEPT ![e].lru = lruRemove(@, key)]
           /\ redisCache' = [redisCache EXCEPT ![key] = NoRow]
    /\ lastCall' = [op |-> "Flush", engine |-> e, id |-> id, row |-> row]
    /\ UNCHANGED engines
    /\ UNCHANGED nonCacheVars

NextEntityCache ==
    \/ CreateEngine
    \/ \E e \in Engines, id \in Ids : LoadByID(e, id)
    \/ \E e \in Engines, id \in Ids, row \in Values \cup {NoRow} : Flush(e, id, row)

\* ------------------------------------------------------------------ diff and flush of one entity

\* the declared columns of the entity, ID aside
EntityColumns == {"Name", "Age"}

\* the values a field is set to
FieldValues == {"a", "b"}

\* the value of a field of a new entity
ZeroValue == ""

Binds == [EntityColumns -> FieldValues \cup {ZeroValue}]

\* a diff that takes every column as changed
allColumnsChanged(snapshot, current) == EntityColumns

\* the columns whose current value differs from the snapshot
changedColumns(snapshot, current) ==
    { c \in EntityColumns : current[c] # snapshot[c] }

\* diff(schema, snapshot|absent, current): the flush records of one entity,
\* none or one; an absent snapshot is the empty sequence
diff(snapshot, current, toDelete) ==
    IF snapshot = << >>
    THEN << [action |-> "insert", bind |-> current] >>
    ELSE IF toDelete
    THEN << [action |-> "delete", bind |-> << >>] >>
    ELSE LET changed == changedColumns(snapshot[1], current)
         IN  IF changed = {} THEN << >>
             ELSE << [action |-> "update", bind |-> [c \in changed |-> current[c]]] >>

InitFlush ==
    /\ tracked = [current |-> [c \in EntityColumns |-> ZeroValue], snapshot |-> << >>,
                  toDelete |-> FALSE]
    /\ flushCall = [op |-> "none"]
    /\ statements = 0

\* an assignment to a field of the entity
SetField(c, v) ==
    /\ tracked' = [tracked EXCEPT !.current[c] = v]
    /\ UNCHANGED << flushCall, statements >>
    /\ UNCHANGED nonFlushVars

\* entity.markToDelete of a persisted entity
MarkToDelete ==
    /\ tracked.snapshot # << >>
    /\ tracked' = [tracked EXCEPT !.toDelete = TRUE]
    /\ UNCHANGED << flushCall, statements >>
    /\ UNCHANGED nonFlushVars

\* Engine.Flush(entity) in immediate mode: one statement for each flush
\* record, and then the snapshot follows the current values
FlushEntity ==
    LET records == diff(tracked.snapshot, tracked.current, tracked.toDelete)
    IN  /\ statements + Len(records) <= MaxStatements
        /\ flushCall' = [op |-> "Flush", snapshot |-> tracked.snapshot,
                         current |-> tracked.current, toDelete |-> tracked.toDelete,
                         records |-> records,
                         issued |-> Len(records)]
        /\ statements' = statements + Len(records)
        /\ tracked' = IF records # << >> /\ records[1].action = "delete"
                     THEN [tracked EXCEPT !.snapshot = << >>, !.toDelete = FALSE]
                     ELSE [tracked EXCEPT !.snapshot = << tracked.current >>]
        /\ UNCHANGED nonFlushVars

NextFlush ==
    \/ \E c \in EntityColumns, v \in FieldValues : SetField(c, v)
    \/ MarkToDelete
    \/ FlushEntity

\* ------------------------------------------------------------------ the handles of one engine

requestCacheKey == "_request"

\* the pool codes the Get calls are given
PoolCodes == {"default", "second", requestCacheKey}

\* the arguments of a Get call: no code, or one code
CodeArgs == {<< >>} \cup { << c >> : c \in PoolCodes }

HandleKinds == {"dbs", "localCache", "redis", "redisSearch"}

\* the registries the engine is created from
EngineRegistries ==
    [mySQLServers : {{"default"}, {"default", "second"}},
     localCacheServers : {{"default"}, {"default", requestCacheKey}},
     redisServers : {{}, {"default"}}]

\* dbCode := "default"; if len(code) > 0 { dbCode = code[0] }
dbCodeOf(code) == IF Len(code) > 0 THEN code[1] ELSE "default"

\* a lookup that never finds the handle
hasNever(map, dbCode) == FALSE

\* cache, has := e.localCache[dbCode], and the same for the other maps; a
\* map holds the handle of a code as a sequence of one element
has(map, dbCode) == map[dbCode] # << >>

\* the handle a Get call makes: a new object each time
newHandle(kind, dbCode, limit) ==
    [kind |-> kind, code |-> dbCode, limit |-> limit,
     serial |-> handlesMade[kind][dbCode] + 1]

\* the limit of a new local cache: the pool's, or the request cache's
limitOf(reg, dbCode) ==
    IF dbCode \in reg.localCacheServers THEN LocalCacheLimit ELSE RequestCacheLimit

\* the pools of the registry a kind of handle is looked up in
serversOf(reg, kind) ==
    IF kind = "dbs" THEN reg.mySQLServers
    ELSE IF kind = "localCache" THEN reg.localCacheServers
    ELSE reg.redisServers

\* whether the Get call of a kind makes a handle for a code it has none of
makes(reg, kind, dbCode) ==
    \/ dbCode \in serversOf(reg, kind)
    \/ kind = "localCache" /\ dbCode = requestCacheKey

\* no registry validated yet
NoRegistry == [mySQLServers |-> {}, localCacheServers |-> {}, redisServers |-> {}]

InitEngine ==
    /\ engineRegistry = NoRegistry
    /\ handleMaps = [k \in HandleKinds |-> [c \in PoolCodes |-> << >>]]
    /\ handlesMade = [k \in HandleKinds |-> [c \in PoolCodes |-> 0]]
    /\ returned = [k \in HandleKinds |-> [c \in PoolCodes |-> {}]]
    /\ getCall = [op |-> "none"]

\* the body the four Get calls share: look the handle up, make and keep it
\* when the pool is registered, panic otherwise
Get(kind, code) ==
    LET dbCode == dbCodeOf(code)
        limit == IF kind = "localCache" THEN limitOf(engineRegistry, dbCode) ELSE 0
    IN  /\ engineRegistry # NoRegistry
        /\ IF has(handleMaps[kind], dbCode)
           THEN /\ getCall' = [op |-> kind, code |-> dbCode, panicked |-> FALSE,
                               result |-> handleMaps[kind][dbCode][1],
                               before |-> handleMaps]
                /\ returned' = [returned EXCEPT ![kind][dbCode] =
                                    @ \cup {handleMaps[kind][dbCode][1]}]
                /\ UNCHANGED << handleMaps, handlesMade >>
           ELSE IF makes(engineRegistry, kind, dbCode)
           THEN /\ handleMaps' = [handleMaps EXCEPT ![kind][dbCode] =
                                      << newHandle(kind, dbCode, limit) >>]
                /\ handlesMade' = [handlesMade EXCEPT ![kind][dbCode] = @ + 1]
                /\ getCall' = [op |-> kind, code |-> dbCode, panicked |-> FALSE,
                               result |-> newHandle(kind, dbCode, limit),
                               before |-> handleMaps]
                /\ returned' = [returned EXCEPT ![kind][dbCode] =
                                    @ \cup {newHandle(kind, dbCode, limit)}]
           ELSE /\ getCall' = [op |-> kind, code |-> dbCode, panicked |-> TRUE,
                               before |-> handleMaps]
                /\ UNCHANGED << handleMaps, handlesMade, returned >>
        /\ UNCHANGED engineRegistry
        /\ UNCHANGED nonEngineVars

\* Registry.Validate and the creation of the engine
Validate(reg) ==
    /\ engineRegistry = NoRegistry
    /\ engineRegistry' = reg
    /\ UNCHANGED << handleMaps, handlesMade, returned, getCall >>
    /\ UNCHANGED nonEngineVars

GetMysql(code) == Get("dbs", code)

EngineGetLocalCache(code) == Get("localCache", code)

GetRedis(code) == Get("redis", code)

GetRedisSearch(code) == Get("redisSearch", code)

NextEngine ==
    \/ \E reg \in EngineRegistries : Validate(reg)
    \/ \E code \in CodeArgs : GetMysql(code)
    \/ \E code \in CodeArgs : EngineGetLocalCache(code)
    \/ \E code \in CodeArgs : GetRedis(code)
    \/ \E code \in CodeArgs : GetRedisSearch(code)

\* ------------------------------------------------------------------ metrics plugin

\* the goroutines that call the log handler
Goroutines == {"g1", "g2"}

\* the options the plugin is initialised with; with both limits 0 Init makes
\* no log handler
MetricsOptions ==
    { o \in [mySQLMetricsLimits : 0..MaxMetricsLimit,
             mySQLSlowQueriesLimit : 0..MaxSlowLimit] :
        o.mySQLMetricsLimits > 0 \/ o.mySQLSlowQueriesLimit > 0 }

\* strings.ToLower on the words of the queries below
ToLower(word) ==
    CASE word = "SELECT" -> "select"
      [] word = "FROM" -> "from"
      [] word = "UPDATE" -> "update"
      [] word = "SET" -> "set"
      [] word = "NAMES" -> "names"
      [] word = "ID" -> "id"
      [] OTHER -> word

\* strings.Split(table, "("), strings.Split(table, ".") and strings.Trim of
\* the quotes, on the table names of the queries below; ' is the backquote
clearTableName(table) ==
    CASE table = "'users'" -> "users"
      [] table = "db.orders" -> "orders"
      [] OTHER -> table

\* the queries the engine logs, split at the spaces
LoggedQueries ==
    { [operation |-> "SELECT", query |-> << "SELECT", "ID", "FROM", "'users'" >>],
      [operation |-> "EXEC", query |-> << "UPDATE", "db.orders", "SET", "a=1" >>],
      [operation |-> "EXEC", query |-> << "SET", "NAMES", "utf8" >>] }

\* the log entries Handle is called with
Logs ==
    [microseconds : 1..MaxDuration, pool : {"default"}, lazy : BOOLEAN,
     sql : LoggedQueries]

\* the first position after the second word that holds "from", 0 if none
fromAt(splitQuery) ==
    IF \E i \in 3..Len(splitQuery) : splitQuery[i] = "from"
    THEN CHOOSE i \in 3..Len(splitQuery) :
            /\ splitQuery[i] = "from"
            /\ \A j \in 3..(i - 1) : splitQuery[j] # "from"
    ELSE 0

\* the switch on operation and on the first word: the query type and the table
classify(operation, splitQuery) ==
    LET first == splitQuery[1]
        unknown == "unknown"
    IN  IF operation = "SELECT"
        THEN IF first = "select"
             THEN [queryType |-> "Query",
                   table |-> IF fromAt(splitQuery) = 0 THEN unknown
                             ELSE clearTableName(splitQuery[fromAt(splitQuery) + 1])]
             ELSE IF first = "show"
             THEN [queryType |-> "Show",
                   table |-> IF \/ splitQuery[2] = "tables" /\ splitQuery[3] = "like"
                                \/ splitQuery[2] = "create" /\ splitQuery[3] = "table"
                                \/ splitQuery[2] = "indexes" /\ splitQuery[3] = "from"
                             THEN clearTableName(splitQuery[4]) ELSE unknown]
             ELSE [queryType |-> "Other", table |-> unknown]
        ELSE IF operation = "EXEC"
        THEN IF first = "update"
             THEN [queryType |-> "Update", table |-> clearTableName(splitQuery[2])]
             ELSE IF first = "insert"
             THEN [queryType |-> "Insert", table |-> clearTableName(splitQuery[3])]
             ELSE IF first = "delete"
             THEN [queryType |-> "Delete", table |-> clearTableName(splitQuery[3])]
             ELSE IF first = "alter"
             THEN [queryType |-> "Alter", table |-> clearTableName(splitQuery[3])]
             ELSE IF first = "set"
             THEN [queryType |-> "Alter", table |-> unknown]
             ELSE [queryType |-> "Other", table |-> unknown]
        ELSE [queryType |-> "Other", table |-> unknown]

\* the place of a log entry in ml.queries: pool, query type, table, lazy
bucketOf(log) ==
    LET query == [i \in 1..Len(log.sql.query) |-> ToLower(log.sql.query[i])]
        class == classify(log.sql.operation, query)
    IN  << log.pool, class.queryType, class.table, log.lazy >>

\* ---- the tree of slow queries: nil is the empty sequence, a node a
\* ---- sequence of one record
NilNode == << >>

RECURSIVE insert(_, _)
insert(n, value) ==
    IF n = NilNode
    THEN << [value |-> value, left |-> NilNode, right |-> NilNode] >>
    ELSE IF value.Duration < n[1].value.Duration
    THEN << [n[1] EXCEPT !.left = insert(@, value)] >>
    ELSE << [n[1] EXCEPT !.right = insert(@, value)] >>

\* findMin: the value of the leftmost node
RECURSIVE findMin(_)
findMin(n) ==
    IF n[1].left # NilNode THEN findMin(n[1].left) ELSE n[1].value

\* the tree after the leftmost node gave its place to its right child
RECURSIVE withoutMin(_)
withoutMin(n) ==
    IF n[1].left # NilNode
    THEN << [n[1] EXCEPT !.left = withoutMin(@)] >>
    ELSE n[1].right

RECURSIVE getChildren(_)
getChildren(n) ==
    IF n = NilNode THEN << >>
    ELSE getChildren(n[1].right) \o << n[1].value >> \o getChildren(n[1].left)

\* a sample of a logged query
MySQLSLowQuery(log) == [Pool |-> log.pool, Duration |-> log.microseconds]

\* ml.slowQueriesCounter < ml.p.options.mySQLSlowQueriesLimit
hasRoom(counter, limit) == counter < limit

NoLog == << >>

\* no plugin yet
NoOptions == [mySQLMetricsLimits |-> 0, mySQLSlowQueriesLimit |-> 0]

InitMetrics ==
    /\ options = NoOptions
    /\ queryStats = << >>
    /\ slowQueries = NilNode
    /\ slowQueriesCounter = 0
    /\ mySQLMetricsLimits = 0
    /\ mutex = ""
    /\ hpc = [g \in Goroutines |-> "idle"]
    /\ hlog = [g \in Goroutines |-> NoLog]
    /\ hslow = [g \in Goroutines |-> FALSE]
    /\ handled = 0
    /\ passed = [t \in {} |-> 0]
    /\ fallen = << >>

\* one more query of a duration passed to the handler
counted(bag, t) ==
    [d \in DOMAIN bag \cup {t} |-> IF d \in DOMAIN bag
                                  THEN bag[d] + (IF d = t THEN 1 ELSE 0) ELSE 1]

\* one more query fallen into a bucket
added(group, b, t, slow) ==
    [k \in DOMAIN group \cup {b} |->
        IF k # b THEN group[k]
        ELSE IF b \in DOMAIN group
        THEN [Counter |-> group[b].Counter + 1, Time |-> group[b].Time + t,
              SlowQueries |-> group[b].SlowQueries + (IF slow THEN 1 ELSE 0)]
        ELSE [Counter |-> 1, Time |-> t, SlowQueries |-> IF slow THEN 1 ELSE 0]]

\* simple_metrics.Init(options): the log handler is made, and registered with
\* the engines, when one of the limits is positive
PluginInit(o) ==
    /\ options = NoOptions
    /\ options' = o
    /\ mySQLMetricsLimits' = o.mySQLMetricsLimits
    /\ UNCHANGED << queryStats, slowQueries, slowQueriesCounter, mutex, hpc, hlog,
                    hslow, handled, passed, fallen >>
    /\ UNCHANGED nonMetricsVars

\* Handle is called with a log entry: lines 111-122
HandleCall(g, log) ==
    /\ options # NoOptions
    /\ hpc[g] = "idle"
    /\ handled < MaxHandled
    /\ handled' = handled + 1
    /\ hlog' = [hlog EXCEPT ![g] = << log >>]
    /\ hslow' = [hslow EXCEPT ![g] = FALSE]
    /\ hpc' = [hpc EXCEPT ![g] = "slow"]
    /\ passed' = IF log.lazy THEN passed ELSE counted(passed, log.microseconds)
    /\ UNCHANGED << options, queryStats, slowQueries, slowQueriesCounter,
                    mySQLMetricsLimits, mutex, fallen >>
    /\ UNCHANGED nonMetricsVars

\* the conditions of lines 123, 124 and 134
CheckSlow(g) ==
    /\ hpc[g] = "slow"
    /\ hpc' = [hpc EXCEPT ![g] =
                  IF ~hlog[g][1].lazy /\ options.mySQLSlowQueriesLimit > 0
                  THEN IF hasRoom(slowQueriesCounter, options.mySQLSlowQueriesLimit)
                       THEN "insert"
                       ELSE IF slowQueries # NilNode THEN "replace" ELSE "metrics"
                  ELSE "metrics"]
    /\ UNCHANGED << options, queryStats, slowQueries, slowQueriesCounter,
                    mySQLMetricsLimits, mutex, hlog, hslow, handled, passed, fallen >>
    /\ UNCHANGED nonMetricsVars

\* lines 125-132: the sample enters the tree
InsertSlow(g) ==
    /\ hpc[g] = "insert"
    /\ slowQueries' = insert(slowQueries, MySQLSLowQuery(hlog[g][1]))
    /\ hpc' = [hpc EXCEPT ![g] = "count"]
    /\ UNCHANGED << options, queryStats, slowQueriesCounter, mySQLMetricsLimits,
                    mutex, hlog, hslow, handled, passed, fallen >>
    /\ UNCHANGED nonMetricsVars

\* line 133
CountSlow(g) ==
    /\ hpc[g] = "count"
    /\ slowQueriesCounter' = slowQueriesCounter + 1
    /\ hpc' = [hpc EXCEPT ![g] = "metrics"]
    /\ UNCHANGED << options, queryStats, slowQueries, mySQLMetricsLimits,
                    mutex, hlog, hslow, handled, passed, fallen >>
    /\ UNCHANGED nonMetricsVars

\* lines 135-148: the shortest sample gives its place to a longer one; the
\* node insert makes of a nil tree is dropped, and findMin of a nil tree gives
\* a nil min whose value cannot be read
ReplaceMin(g) ==
    /\ hpc[g] = "replace"
    /\ LET t == hlog[g][1].microseconds
       IN  IF slowQueries = NilNode
           THEN /\ hpc' = [hpc EXCEPT ![g] = "panicked"]
                /\ UNCHANGED << slowQueries, hslow >>
           ELSE IF findMin(slowQueries).Duration <= t
           THEN /\ slowQueries' =
                      LET rest == withoutMin(slowQueries)
                      IN  IF rest = NilNode THEN NilNode
                          ELSE insert(rest, MySQLSLowQuery(hlog[g][1]))
                /\ hslow' = [hslow EXCEPT ![g] = TRUE]
                /\ hpc' = [hpc EXCEPT ![g] = "metrics"]
           ELSE /\ hpc' = [hpc EXCEPT ![g] = "metrics"]
                /\ UNCHANGED << slowQueries, hslow >>
    /\ UNCHANGED << options, queryStats, slowQueriesCounter, mySQLMetricsLimits,
                    mutex, hlog, handled, passed, fallen >>
    /\ UNCHANGED nonMetricsVars

\* lines 152-154: Handle returns when no bucket is left
CheckLimit(g) ==
    /\ hpc[g] = "metrics"
    /\ IF mySQLMetricsLimits <= 0
       THEN /\ hpc' = [hpc EXCEPT ![g] = "idle"]
            /\ hlog' = [hlog EXCEPT ![g] = NoLog]
            /\ fallen' = IF bucketOf(hlog[g][1]) \in DOMAIN queryStats
                         THEN added(fallen, bucketOf(hlog[g][1]),
                                    hlog[g][1].microseconds, FALSE)
                         ELSE fallen
       ELSE /\ hpc' = [hpc EXCEPT ![g] = "lock"]
            /\ UNCHANGED << hlog, fallen >>
    /\ UNCHANGED << options, queryStats, slowQueries, slowQueriesCounter,
                    mySQLMetricsLimits, mutex, hslow, handled, passed >>
    /\ UNCHANGED nonMetricsVars

\* line 207
Lock(g) ==
    /\ hpc[g] = "lock"
    /\ mutex = ""
    /\ mutex' = g
    /\ hpc' = [hpc EXCEPT ![g] = "update"]
    /\ UNCHANGED << options, queryStats, slowQueries, slowQueriesCounter,
                    mySQLMetricsLimits, hlog, hslow, handled, passed, fallen >>
    /\ UNCHANGED nonMetricsVars

\* lines 210-235 and the deferred Unlock
UpdateBucket(g) ==
    /\ hpc[g] = "update"
    /\ LET b == bucketOf(hlog[g][1])
           t == hlog[g][1].microseconds
       IN  /\ queryStats' = added(queryStats, b, t, hslow[g])
           /\ mySQLMetricsLimits' = IF b \in DOMAIN queryStats THEN mySQLMetricsLimits
                                    ELSE mySQLMetricsLimits - 1
           /\ fallen' = added(fallen, b, t, FALSE)
    /\ mutex' = ""
    /\ hpc' = [hpc EXCEPT ![g] = "idle"]
    /\ hlog' = [hlog EXCEPT ![g] = NoLog]
    /\ UNCHANGED << options, slowQueries, slowQueriesCounter, hslow, handled, passed >>
    /\ UNCHANGED nonMetricsVars

\* Plugin.ClearMySQLStats, under the mutex
ClearMySQLStats ==
    /\ options # NoOptions
    /\ mutex = ""
    /\ queryStats # << >> \/ mySQLMetricsLimits # options.mySQLMetricsLimits
    /\ queryStats' = << >>
    /\ mySQLMetricsLimits' = options.mySQLMetricsLimits
    /\ fallen' = << >>
    /\ UNCHANGED << options, slowQueries, slowQueriesCounter, mutex, hpc, hlog,
                    hslow, handled, passed >>
    /\ UNCHANGED nonMetricsVars

\* Plugin.ClearMySQLSlowQueries, under the mutex
ClearMySQLSlowQueries ==
    /\ options # NoOptions
    /\ mutex = ""
    /\ slowQueries # NilNode \/ slowQueriesCounter # 0
    /\ slowQueries' = NilNode
    /\ slowQueriesCounter' = 0
    /\ passed' = [t \in {} |-> 0]
    /\ UNCHANGED << options, queryStats, mySQLMetricsLimits, mutex, hpc, hlog,
                    hslow, handled, fallen >>
    /\ UNCHANGED nonMetricsVars

\* Plugin.GetMySQLSlowQueriesStats
GetMySQLSlowQueriesStats == getChildren(slowQueries)

\* the steps of Handle in one goroutine, called with the given log entries
Handle(g, logs) ==
    \/ \E log \in logs : HandleCall(g, log)
    \/ CheckSlow(g)
    \/ InsertSlow(g)
    \/ CountSlow(g)
    \/ ReplaceMin(g)
    \/ CheckLimit(g)
    \/ Lock(g)
    \/ UpdateBucket(g)

\* no call of Handle is running
Quiet == \A g \in Goroutines : hpc[g] = "idle"

\* the handler called from one goroutine, one call after the other
NextMetrics ==
    \/ \E o \in MetricsOptions : PluginInit(o)
    \/ Handle("g1", Logs)
    \/ Quiet /\ ClearMySQLStats
    \/ Quiet /\ ClearMySQLSlowQueries

\* the log entries of the SELECT queries that are not lazy
SelectLogs == { log \in Logs : ~log.lazy /\ log.sql.operation = "SELECT" }

\* the handler called from several goroutines, each with SELECT queries that
\* are not lazy
NextMetricsConcurrent ==
    \/ \E o \in MetricsOptions : PluginInit(o)
    \/ \E g \in Goroutines : Handle(g, SelectLogs)
    \/ ClearMySQLStats
    \/ ClearMySQLSlowQueries

\* ------------------------------------------------------------------ foreign keys plugin

\* the tags of one field: no fk tag, or the fk tag with a value
FkTag(v) == IF v = "" THEN NoTags ELSE [k \in {"fk"} |-> v]

\* the entities the plugin is given: their references, the tags of the ORM
\* field and the tags of the references
FkEntities ==
    UNION { [refs : {refs}, orm : {FkTag(""), FkTag("true")},
             tags : [Range(refs) -> {FkTag(""), FkTag("true"), FkTag("skip")}]] :
                refs \in { << >>, << "Parent" >>, << "Parent", "Owner" >> } }

\* the table of the entity a reference points to
ReferencedTable(refColumn) == IF refColumn = "Parent" THEN "Parent" ELSE "User"

\* the database of the pool of every entity
Database == "db"

\* fmt.Sprintf("%s:%s:%s", database, entity type, refColumn)
fkName(refColumn) == Database \o ":" \o "app.Child" \o ":" \o refColumn

\* the foreign key the plugin wants for a reference
foreignIndex(refColumn) ==
    [Column |-> refColumn, Table |-> ReferencedTable(refColumn),
     ParentDatabase |-> Database, OnDelete |-> "RESTRICT"]

\* the names of the constraints, as sort.Strings orders their clauses
SortedNames == << fkName("Owner"), fkName("Parent"), "old" >>

sortStrings(names) == SelectSeq(SortedNames, LAMBDA n : n \in names)

\* the loop of InterfaceInitEntitySchema over the references
RECURSIVE fkList(_, _, _)
fkList(refs, globalFK, tags) ==
    IF refs = << >> THEN << >>
    ELSE LET columnTag == getTag(tags[Head(refs)], "fk", "true", "")
         IN  (IF globalFK /\ columnTag # "skip" THEN << Head(refs) >>
              ELSE IF columnTag = "true" THEN << Head(refs) >>
              ELSE << >>)
             \o fkList(Tail(refs), globalFK, tags)

\* the foreign keys a table may hold: each wanted one as the plugin builds
\* it, with another ON DELETE or to another table, and one no entity wants
DatabaseKeys ==
    LET variants(refColumn) ==
            { foreignIndex(refColumn),
              [foreignIndex(refColumn) EXCEPT !.OnDelete = "CASCADE"],
              [foreignIndex(refColumn) EXCEPT !.OnDelete = "SET NULL"],
              [foreignIndex(refColumn) EXCEPT !.Table = "Other"] }
        old == [Column |-> "Old", Table |-> "Parent", ParentDatabase |-> Database,
                OnDelete |-> "RESTRICT"]
    IN  UNION { { [n \in names |-> IF n = "old" THEN old
                                   ELSE IF n = fkName("Parent") THEN p ELSE o] :
                    p \in variants("Parent"), o \in variants("Owner") } :
                names \in SUBSET Range(SortedNames) }

\* the rows of INFORMATION_SCHEMA.KEY_COLUMN_USAGE of a table
KeyColumnUsage(keys) ==
    { [ConstraintName |-> n, ColumnName |-> keys[n].Column,
       ReferencedTableName |-> keys[n].Table,
       ReferencedEntitySchema |-> keys[n].ParentDatabase] : n \in DOMAIN keys }

\* the lines of SHOW CREATE TABLE, each split at the spaces; ' stands for
\* the backquote, and ON DELETE RESTRICT is left out as MySQL leaves it out
CreateSchema(keys) ==
    << << "CREATE", "TABLE", "'Child'", "(" >> >>
    \o [i \in 1..Len(sortStrings(DOMAIN keys)) |->
            LET n == sortStrings(DOMAIN keys)[i]
            IN  << "CONSTRAINT", "'" \o n \o "'", "FOREIGN", "KEY",
                   "('" \o keys[n].Column \o "')", "REFERENCES",
                   "'" \o keys[n].Table \o "'", "('ID')" >>
                \o (IF keys[n].OnDelete = "RESTRICT" THEN << >>
                    ELSE IF keys[n].OnDelete = "SET NULL"
                    THEN << "ON", "DELETE", "SET", "NULL" >>
                    ELSE << "ON", "DELETE", keys[n].OnDelete >>)]

\* the table in the database: missing, or with foreign keys
Tables ==
    { [keys |-> << >>, DBCreateSchema |-> << >>, rows |-> {}] }
    \cup { [keys |-> keys, DBCreateSchema |-> CreateSchema(keys),
            rows |-> KeyColumnUsage(keys)] :
            keys \in DatabaseKeys }

\* the ON DELETE the lines of the create schema give a constraint
onDelete(createSchema, constraintName) ==
    LET hits == { i \in 1..Len(createSchema) :
                    /\ createSchema[i][1] = "CONSTRAINT"
                    /\ createSchema[i][2] = "'" \o constraintName \o "'"
                    /\ createSchema[i][Len(createSchema[i]) - 1] = "DELETE" }
    IN  IF hits = {} THEN "RESTRICT"
        ELSE LET last == CHOOSE i \in hits : \A j \in hits : j <= i
             IN  createSchema[last][Len(createSchema[last])]

\* getForeignKeys: the foreign keys of the table, by constraint name
getForeignKeys(table) ==
    [n \in { row.ConstraintName : row \in table.rows } |->
        LET row == CHOOSE r \in table.rows : r.ConstraintName = n
        IN  [Column |-> row.ColumnName, Table |-> row.ReferencedTableName,
             ParentDatabase |-> row.ReferencedEntitySchema,
             OnDelete |-> onDelete(table.DBCreateSchema, n)]]

\* the indexes of the entity, and after them an index for every reference
\* that is the first column of none
RECURSIVE withRefIndexes(_, _)
withRefIndexes(indexes, refs) ==
    IF refs = << >> THEN indexes
    ELSE withRefIndexes(
            IF \E i \in 1..Len(indexes) : indexes[i].Columns[1] = Head(refs)
            THEN indexes
            ELSE Append(indexes, [Name |-> Head(refs) \o "Ref", Unique |-> FALSE,
                                  Columns |-> << Head(refs) >>]),
            Tail(refs))

\* the alter of the table with the given clauses
AlterTable(clauses) ==
    [SQL |-> [table |-> "Child", clauses |-> clauses], Safe |-> TRUE, Pool |-> "default"]

\* the indexes the entity declares
EntityIndexSets ==
    { << >>, << [Name |-> "ParentIndex", Unique |-> FALSE, Columns |-> << "Parent" >>] >> }

InitForeignKeys ==
    /\ fkSchema = [op |-> "none"]
    /\ sqlSchema = [op |-> "none"]

\* Plugin.InterfaceInitEntitySchema: the option is set when the list is not empty
InterfaceInitEntitySchema ==
    /\ fkSchema.op = "none"
    /\ \E e \in FkEntities :
        /\ fkSchema' =
              [op |-> "init", entity |-> e,
               option |-> IF Len(e.refs) = 0 THEN << >>
                          ELSE fkList(e.refs, getTag(e.orm, "fk", "true", "") = "true",
                                      e.tags)]
        /\ UNCHANGED sqlSchema
        /\ UNCHANGED nonForeignKeyVars

\* Plugin.PluginInterfaceTableSQLSchemaDefinition
PluginInterfaceTableSQLSchemaDefinition ==
    /\ fkSchema.op = "init"
    /\ sqlSchema.op = "none"
    /\ \E table \in Tables, indexes \in EntityIndexSets :
        LET refsMap == fkSchema.option
            wanted == [n \in { fkName(refsMap[i]) : i \in 1..Len(refsMap) } |->
                          foreignIndex(CHOOSE c \in Range(refsMap) : fkName(c) = n)]
            dbForeignKeys == IF table.DBCreateSchema # << >> THEN getForeignKeys(table)
                             ELSE << >>
            dropForeignKeys ==
                { n \in DOMAIN dbForeignKeys :
                    n \notin DOMAIN wanted \/ wanted[n] # dbForeignKeys[n] }
            addForeignKeys ==
                { n \in DOMAIN wanted :
                    ~(n \in DOMAIN dbForeignKeys /\ wanted[n] = dbForeignKeys[n]) }
            drops == sortStrings(dropForeignKeys)
            adds == sortStrings(addForeignKeys)
        IN  /\ sqlSchema' =
                IF refsMap = << >>
                THEN [op |-> "definition", table |-> table, EntityIndexes |-> indexes,
                      PreAlters |-> << >>, PostAlters |-> << >>]
                ELSE [op |-> "definition", table |-> table,
                      EntityIndexes |-> withRefIndexes(indexes, refsMap),
                      PreAlters |->
                          IF drops = << >> THEN << >>
                          ELSE << AlterTable([i \in 1..Len(drops) |->
                                                [drop |-> drops[i]]]) >>,
                      PostAlters |->
                          IF adds = << >> THEN << >>
                          ELSE << AlterTable([i \in 1..Len(adds) |->
                                                [add |-> adds[i],
                                                 definition |-> wanted[adds[i]]]]) >>]
            /\ UNCHANGED fkSchema
            /\ UNCHANGED nonForeignKeyVars

NextForeignKeys ==
    \/ InterfaceInitEntitySchema
    \/ PluginInterfaceTableSQLSchemaDefinition

\* ------------------------------------------------------------------ specifications

Init == InitLazy /\ InitStream /\ InitCache /\ InitSchema /\ InitFlush
        /\ InitEngine /\ InitMetrics /\ InitForeignKeys

SpecLazy == Init /\ [][NextLazy]_vars

SpecStream == Init /\ [][NextStream]_vars

SpecCache == Init /\ [][NextCache]_vars

SpecEntityCache == Init /\ [][NextEntityCache]_vars

SpecSchema == Init /\ [][NextSchema]_vars

SpecFlush == Init /\ [][NextFlush]_vars

SpecEngine == Init /\ [][NextEngine]_vars

SpecMetrics == Init /\ [][NextMetrics]_vars

SpecMetricsConcurrent == Init /\ [][NextMetricsConcurrent]_vars

SpecForeignKeys == Init /\ [][NextForeignKeys]_vars

\* ------------------------------------------------------------------ lazy consumer: properties

\* the records a phase (batch or iso) executed, in the order of execution
PhaseRecords(phase) ==
    LET es == SelectSeq(executed, LAMBDA x : x.phase = phase) IN
    [k \in 1..Len(es) |-> es[k].record]

\* record r was replayed successfully in isolation
SucceededIsolated(r) ==
    \E k \in DOMAIN executed :
        /\ executed[k].record = r
        /\ executed[k].phase = "iso"
        /\ executed[k].out = "ok"

\* a resolver returned nil for record r
Resolved(r) ==
    \E k \in DOMAIN resolverCalls :
        resolverCalls[k].record = r /\ resolverCalls[k].result = "nil"

\* the batch execution succeeded
BatchSucceeded == pc \in {"returned", "done"} /\ rec = NoError

\* the replay loop ran to its end
ReplaySucceeded == pc \in {"returned", "done"} /\ rec # NoError

\* handleEvents panicked because the isolated execution of a record raised a
\* relational-store error that no resolver resolved
UnresolvedFailure ==
    /\ pc = "panicked"
    /\ executed # << >>
    /\ executed[Len(executed)].phase = "iso"
    /\ executed[Len(executed)].out = "mysql"
    /\ ~Resolved(executed[Len(executed)].record)

\* the calls made to the resolvers for record r, in the order they were made
CallsFor(r) == SelectSeq(resolverCalls, LAMBDA c : c.record = r)

\* C1: during the replay loop an acknowledgment issued for a record goes to
\* the event that carried the record, and an event is acknowledged only when
\* every record it carried succeeded in isolation or was resolved.
C1_AckGoesToCarrier ==
    rec # NoError =>
        \A k \in DOMAIN acks :
            /\ acks[k].record # 0 => acks[k].event = Owner(acks[k].record)
            /\ \A r \in Range(events[acks[k].event]) :
                   SucceededIsolated(r) \/ Resolved(r)

\* C2: an unresolved relational-store failure of an isolated execution leaves
\* handleEvents as a panic carrying that failure, the event that carried the
\* record is not acknowledged, and no later record is executed or acknowledged.
C2_UnresolvedFailureIsFatal ==
    UnresolvedFailure =>
        LET r == executed[Len(executed)].record IN
        /\ panicValue = Error("mysql", r, "iso")
        /\ Owner(r) \notin AckedEvents
        /\ \A j \in DOMAIN lazyEvents :
               j > idx => /\ ~SucceededIsolated(lazyEvents[j])
                          /\ \A a \in DOMAIN acks : acks[a].record # lazyEvents[j]

\* C3: the resolvers are invoked in registration order; the first that
\* returns nil ends the chain for that record, the event that carried the
\* record is acknowledged and the loop goes on with the next record.
C3_ResolverChain ==
    \A r \in Range(lazyEvents) :
        LET cs == CallsFor(r) IN
        /\ Len(cs) <= Len(lazyFlushQueryErrorResolvers)
        /\ \A k \in DOMAIN cs :
               /\ cs[k].resolver = lazyFlushQueryErrorResolvers[k]
               /\ cs[k].result = "nil" => k = Len(cs)
        /\ Resolved(r) =>
               /\ \E a \in DOMAIN acks :
                      acks[a].record = r /\ acks[a].event = Owner(r)
               /\ ~(pc = "panicked" /\ panicValue = Error("runtime", r, "iso"))

\* C4: every resolver receives the error raised by the isolated execution of
\* the record it is called for, with that record as payload.
C4_ResolverGetsIsolatedError ==
    \A k \in DOMAIN resolverCalls :
        /\ resolverCalls[k].err.record = resolverCalls[k].record
        /\ resolverCalls[k].err.phase = "iso"

\* C5: when handleEvents returns after the batch was fully replayed, no
\* queued cache setter is left unflushed.
C5_CacheSettersFlushed ==
    pc \in {"returned", "done"} => queued = {}

\* C6: the replay loop is entered only when the batch execution raised a
\* relational-store error; after a successful batch every record was
\* executed once; any other panic leaves handleEvents unchanged, with no
\* isolated execution and no acknowledgment.
C6_ReplayOnlyOnMySQLError ==
    /\ (pc = "isolated" \/ PhaseRecords("iso") # << >>) => rec.kind = "mysql"
    /\ BatchSucceeded =>
           /\ PhaseRecords("iso") = << >>
           /\ PhaseRecords("batch") = lazyEvents
    /\ rec.kind = "other" =>
           /\ pc = "panicked"
           /\ panicValue = rec
           /\ PhaseRecords("iso") = << >>
           /\ resolverCalls = << >>
           /\ acks = << >>

\* a non-MySQL panic of the batch execution, raised after a record succeeded
C6_Witness ==
    /\ pc = "panicked"
    /\ rec.kind = "other"
    /\ Len(executed) >= 2
    /\ Len(events) >= 2

\* C7: the records reach handleEvents in publish order (the events in
\* delivery order, the records of an event in serialized order), the batch
\* executes them in that order and so does the replay loop.
C7_PublishOrder ==
    /\ \A k \in DOMAIN lazyEvents : lazyEvents[k] = k
    /\ \A k \in DOMAIN PhaseRecords("batch") : PhaseRecords("batch")[k] = k
    /\ \A k \in DOMAIN PhaseRecords("iso") : PhaseRecords("iso")[k] = k

\* two events with three records between them, all replayed one by one
C7_Witness ==
    /\ pc = "done"
    /\ Len(events) = 2
    /\ Len(events[1]) >= 1
    /\ Len(events[2]) >= 1
    /\ Len(PhaseRecords("iso")) >= 2
\* C26: a panic of an isolated execution that is not a MySQL error leaves
\* handleEvents as a panic with that value; no resolver is called for the
\* record and the record is not acknowledged.
C26_OtherPanicPropagates ==
    \A k \in DOMAIN executed :
        (executed[k].phase = "iso" /\ executed[k].out = "other") =>
            /\ pc = "panicked"
            /\ panicValue = Error("other", executed[k].record, "iso")
            /\ \A c \in DOMAIN resolverCalls :
                    resolverCalls[c].record # executed[k].record
            /\ \A a \in DOMAIN acks : acks[a].record # executed[k].record

\* ------------------------------------------------------------------ event broker: properties

\* C8: a non-blocking Consume whose handler returned normally acknowledged
\* every entry it delivered, whatever the batch size: no entry it delivered
\* is pending, and with no entry pending when it was called the group's
\* pending-entry count is 0 when it returns.
C8_ConsumeAcknowledgesAll ==
    consumeResult = "returned" =>
        /\ deliveredByCall \cap pending = {}
        /\ pending = pendingAtStart
        /\ pendingAtStart = {} => Cardinality(pending) = 0

\* every published entry was delivered by one Consume whose batch size
\* exceeds the number of entries, and none is pending
C8_Witness ==
    /\ consumeResult = "returned"
    /\ published >= 2
    /\ Cardinality(deliveredByCall) = published
    /\ count > published
    /\ pendingAtStart = {}
    /\ pending = {}

\* C9: a Consume whose handler panicked acknowledged no entry of the
\* delivered batch: the batch holds min(batch size, undelivered entries)
\* entries, all of them are pending afterwards (they are the only pending
\* entries when none was pending before), and a pending entry stays pending
\* until it is acknowledged.
C9_PanicAcknowledgesNothing ==
    /\ [](consumeResult = "panicked" =>
            /\ batch \subseteq pending
            /\ pending = pendingAtStart \cup batch
            /\ pendingAtStart = {} => Cardinality(pending) = Cardinality(batch))
    /\ [][(cpc = "reading" /\ cpc' = "handling") =>
            Cardinality(batch') = Min(count, Len(stream) - lastDelivered)]_vars
    /\ [][\A e \in pending :
            e \in pending' \/ (cpc = "handling" /\ op' = "ack" /\ e \in batch)]_vars

\* a panic on a batch of two entries cut by the batch size
C9_Witness ==
    /\ consumeResult = "panicked"
    /\ count = 2
    /\ published = 3
    /\ Cardinality(batch) = 2
    /\ Cardinality(pending) = 2

\* C10: a statistics call reports the number of published entries as the
\* stream's length (0 and no group for a stream nothing was done with) and
\* each group's pending count; delivering and acknowledging entries do not
\* change the length, and a statistics call changes nothing.
C10_StatisticsReadOnly ==
    /\ [](Len(stream) = published)
    /\ [](op = "stats" =>
            /\ stats.Len = published
            /\ (published = 0 /\ ~groupCreated) =>
                   (stats.Len = 0 /\ stats.Groups = {})
            /\ groupCreated =>
                   stats.Groups = { [Group |-> "test-group",
                                     Pending |-> Cardinality(pending)] })
    /\ [][op' = "stats" =>
            UNCHANGED << stream, published, groupCreated, lastDelivered,
                         pending, cpc, batch >>]_vars
    /\ [][op' \in {"consume", "read", "ack", "panic", "return"} =>
            Len(stream') = Len(stream)]_vars

\* statistics taken after three entries were published, delivered and
\* acknowledged
C10_Witness ==
    /\ op = "stats"
    /\ stats.Len = 3
    /\ lastDelivered = 3
    /\ pending = {}
    /\ consumeResult = "returned"

\* ------------------------------------------------------------------ local cache: properties

\* C11: a GetSet for a key that is cached returns the cached value without
\* asking the provider; a GetSet for a key that is not cached asks the
\* provider, returns what it provided and leaves it cached; a Remove leaves
\* none of its keys cached, so that the next GetSet for them asks the provider.
C11_GetSetComputesOnce ==
    [][ /\ lastCall'.op = "GetSet" =>
            LET e == lastCall'.engine
                k == lastCall'.key
            IN  IF lruHas(localCache[e].lru, k)
                THEN /\ ~lastCall'.invoked
                     /\ lastCall'.result = lruValue(localCache[e].lru, k)
                     /\ lruValue(localCache'[e].lru, k) = lastCall'.result
                ELSE /\ lastCall'.invoked
                     /\ lastCall'.result = lastCall'.provided
                     /\ lruHas(localCache'[e].lru, k)
                     /\ lruValue(localCache'[e].lru, k) = lastCall'.provided
        /\ lastCall'.op = "Remove" =>
            \A k \in lastCall'.keys : ~lruHas(localCache'[lastCall'.engine].lru, k)
      ]_vars

\* a second GetSet found the key cached: it returned the first value, not the
\* one its own provider would have returned
C11_Witness ==
    /\ lastCall.op = "GetSet"
    /\ ~lastCall.invoked
    /\ lastCall.result # lastCall.provided

\* C12: a Get through an engine returns the value any other engine of the same
\* registry holds cached under the key.
C12_SharedByEngines ==
    [][ lastCall'.op = "Get" =>
            \A e \in engines \ {lastCall'.engine} :
                lruHas(localCache[e].lru, lastCall'.key) =>
                    /\ lastCall'.has
                    /\ lastCall'.result = lruValue(localCache[e].lru, lastCall'.key)
      ]_vars

\* ------------------------------------------------------------------ cached entities: properties

\* the caches that hold an entry under the cache key of the row
CachedIn(cache, remote, id) ==
    { e \in Engines : lruHas(cache[e].lru, getCacheKey(UserEntityPrefix, id)) }
    \cup (IF remote[getCacheKey(UserEntityPrefix, id)] # NoRow THEN {"redis"} ELSE {})

\* C13: after a Flush of the row id no local cache and no remote cache holds
\* an entry under the key of the row, and only a Load of the row puts an entry
\* under its key into a cache.
C13_WriteInvalidates ==
    [][ /\ lastCall'.op = "Flush" =>
            CachedIn(localCache', redisCache', lastCall'.id) = {}
        /\ \A id \in Ids :
            ~(CachedIn(localCache', redisCache', id) \subseteq
                    CachedIn(localCache, redisCache, id))
                => lastCall'.op = "LoadByID" /\ lastCall'.id = id
      ]_vars

\* ------------------------------------------------------------------ table schema: properties

PoolErrors ==
    {"mysql pool not found", "local cache pool not found", "redis pool not found"}

\* C14: init returns a pool-not-found error exactly when the mysql pool, the
\* local cache pool or the redis pool the entity names is not registered among
\* the pools of that kind.
C14_PoolNotFound ==
    schemaCall.op = "init" =>
        LET r == schemaCall.registry
            tags == schemaCall.entity.tags
            mysqlName == getTag(tags, "mysql", "default", "default")
            localName == getTag(tags, "localCache", "default", "")
            redisName == getTag(tags, "redisCache", "default", "")
        IN  schemaCall.out.err \in PoolErrors
            <=> \/ mysqlName \notin r.mysqlPools
                \/ localName # "" /\ localName \notin r.localCachePools
                \/ redisName # "" /\ redisName \notin r.redisPools

\* the columns of an index in ascending order of their ordinals
RECURSIVE ColumnList(_)
ColumnList(v) ==
    IF DOMAIN v = {} THEN << >>
    ELSE LET m == CHOOSE i \in DOMAIN v : \A j \in DOMAIN v : i <= j
         IN  << v[m] >> \o ColumnList([i \in DOMAIN v \ {m} |-> v[i]])

IsPrefixSeq(a, b) == Len(a) <= Len(b) /\ SubSeq(b, 1, Len(a)) = a

\* the indexes an entity declares, each with its name
DeclaredIndexes(entity) ==
    { << k, entity.uniqueIndices[k] >> : k \in DOMAIN entity.uniqueIndices }
    \cup { << k, entity.indices[k] >> : k \in DOMAIN entity.indices }

PoolsFound == schemaCall.op = "init" /\ schemaCall.out.err \notin PoolErrors

Contiguous(v) == DOMAIN v = 1..len(v)

Placeholders(tokens) == { t.name : t \in { tokens[i] : i \in 1..Len(tokens) } \cap
                                         { Var(c) : c \in Columns \cup {"ID"} } }

ColumnSet(v) == { v[i] : i \in DOMAIN v }

FilterColumns(tokens, entity) ==
    Placeholders(tokens)
    \cup IF entity.hasFakeDelete /\ Placeholders(tokens) # {} THEN {"FakeDelete"} ELSE {}

\* an index that names no column twice
NoColumnTwice(v) == \A i, j \in DOMAIN v : v[i] = v[j] => i = j

Reorderings(s) ==
    { p \in [1..Len(s) -> Range(s)] : \A x \in Range(s) : \E i \in 1..Len(s) : p[i] = x }

\* an index made of the filter columns, in any order, and then the order
\* columns, a FakeDelete column at its end left aside or not
FilterThenOrder(list, def) ==
    \E p \in Reorderings(def.QueryFields) :
        \/ list = p \o def.OrderFields
        \/ /\ list # << >>
           /\ list[Len(list)] = "FakeDelete"
           /\ SubSeq(list, 1, Len(list) - 1) = p \o def.OrderFields

\* C17: a query template with a text is accepted only if an index is made of
\* its filter columns and then its order columns; without such an index init
\* returns the missing-index error.
C17_QueryNeedsIndex ==
    PoolsFound =>
        \A k \in DOMAIN schemaCall.out.cachedIndexes :
            schemaCall.entity.queries[k].tokens # << >> =>
                LET indexed ==
                        \E a \in DeclaredIndexes(schemaCall.entity) :
                            FilterThenOrder(ColumnList(a[2]), schemaCall.out.cachedIndexes[k])
                IN  /\ schemaCall.out.err = "" => indexed
                    /\ ~indexed => schemaCall.out.err = "missing index for cached query"

\* C18: a query template with an empty text is stored as the default query,
\* behind the FakeDelete filter for a soft-delete entity, with no filter and
\* no order columns, and init accepts it whatever the indexes are.
C18_DefaultQuery ==
    PoolsFound =>
        \A k \in DOMAIN schemaCall.out.cachedIndexes :
            schemaCall.entity.queries[k].tokens = << >> =>
                LET def == schemaCall.out.cachedIndexes[k]
                IN  /\ def.Query = IF schemaCall.entity.hasFakeDelete
                                   THEN << Text("FakeDelete = 0 ORDER BY ID") >>
                                   ELSE << Text("1 ORDER BY ID") >>
                    /\ def.QueryFields = << >>
                    /\ def.OrderFields = << >>
                    /\ schemaCall.out.err = ""

\* a cache key was derived under one version of the entity and then under a
\* version with other columns, or with the same columns in another order
TwoLayouts ==
    /\ schemaCall.op = "getCacheKey"
    /\ schemaCall.before # << >>
    /\ schemaCall.before[1].columns # schemaCall.out.columns

\* C19 as stated: two versions of a table that differ in their columns or in
\* the order of the columns get different cache prefixes, and no cache key of
\* one is a cache key of the other.
C19_PrefixDiffers ==
    TwoLayouts =>
        /\ schemaCall.before[1].cachePrefix # schemaCall.out.cachePrefix
        /\ schemaCall.before[1].key # schemaCall.out.key

\* C19: two versions of a table that differ in their columns or in the order
\* of the columns feed different strings to SHA-256, and when the five
\* hexadecimal digits kept of the two digests differ, no cache key of one is a
\* cache key of the other.
C19_HashedStringDiffers ==
    TwoLayouts =>
        /\ schemaCall.before[1].hashed # schemaCall.out.hashed
        /\ schemaCall.before[1].cachePrefix # schemaCall.out.cachePrefix
            => schemaCall.before[1].key # schemaCall.out.key

\* the same row under two versions with different columns and different prefixes
C19_Witness ==
    /\ TwoLayouts
    /\ schemaCall.before[1].id = schemaCall.out.id
    /\ schemaCall.before[1].cachePrefix # schemaCall.out.cachePrefix

\* C27: two entities with the same columns and different pairs of mysql
\* pool and table name feed different strings to the hash of the cache
\* prefix, and no cache key of one is a cache key of the other unless the
\* digits kept of the two digests collide.
C27_PoolAndTableDiffer ==
    (schemaCall.op = "cachePrefix" /\ schemaCall.before # << >>) =>
        /\ schemaCall.before[1].hashed # schemaCall.out.hashed
        /\ schemaCall.before[1].cachePrefix # schemaCall.out.cachePrefix
            => schemaCall.before[1].key # schemaCall.out.key

\* the categories of columns in the order GetColumns is said to list them
ClaimedOrder ==
    << "uintegers", "refs", "integers", "booleans", "floats", "times", "dates",
       "fakeDelete", "strings", "uintegersNullable", "integersNullable",
       "stringsEnums", "bytes", "sliceStringsSets", "booleansNullable",
       "floatsNullable", "timesNullable", "datesNullable", "jsons" >>

\* the columns of one category, in declaration order
RECURSIVE ColumnsIn(_, _, _, _)
ColumnsIn(t, start, prefix, categories) ==
    IF categories = << >> THEN << >>
    ELSE LET ids == indexesOf(t, start, prefix, Head(categories))
         IN  [k \in 1..Len(ids) |-> prefix \o t[ids[k] + 1].name]
             \o ColumnsIn(t, start, prefix, Tail(categories))

\* every mapped field once: by category, then by declaration, then the structs
RECURSIVE ClaimedColumns(_, _, _)
ClaimedColumns(t, start, prefix) ==
    LET structs == indexesOf(t, start, prefix, "structs")
        RECURSIVE nested(_)
        nested(k) ==
            IF k > Len(structs) THEN << >>
            ELSE LET field == t[structs[k] + 1]
                 IN  ClaimedColumns(field.fields, 0,
                                    IF field.anonymous THEN prefix
                                    ELSE prefix \o field.name)
                     \o nested(k + 1)
    IN  ColumnsIn(t, start, prefix, ClaimedOrder) \o nested(1)

\* C20: GetColumns lists every mapped field once, by category in the claimed
\* order, by declaration within a category, the columns of structs last.
C20_ColumnOrder ==
    schemaCall.op = "GetColumns" =>
        schemaCall.out.columns = ClaimedColumns(schemaCall.entity, 1, "")

\* C21: GetUniqueIndexes returns the columns of every unique index in the
\* ascending order of their ordinals, the same list after every validation.
C21_AscendingOrdinals ==
    schemaCall.op = "GetUniqueIndexes" =>
        /\ \A name \in DOMAIN schemaCall.entity.uniqueIndices :
                schemaCall.out[name] = ColumnList(schemaCall.entity.uniqueIndices[name])
        /\ schemaCall.before # << >> => schemaCall.before[1] = schemaCall.out

\* the names of the placeholders of a template part, each once, in the
\* order of their first occurrence
RECURSIVE FirstOccurrences(_)
FirstOccurrences(tokens) ==
    IF tokens = << >> THEN << >>
    ELSE LET rest == FirstOccurrences(SubSeq(tokens, 1, Len(tokens) - 1))
             last == tokens[Len(tokens)]
         IN  IF last.kind = "var" /\ last.name \notin Range(rest)
             THEN Append(rest, last.name) ELSE rest

\* the part of a template before its order by, and the part after it
BeforeOrderBy(tokens) ==
    IF posOrderBy(tokens) = 0 THEN tokens ELSE SubSeq(tokens, 1, posOrderBy(tokens) - 1)

AfterOrderBy(tokens) ==
    IF posOrderBy(tokens) = 0 THEN << >>
    ELSE SubSeq(tokens, posOrderBy(tokens) + 1, Len(tokens))

\* the definition init keeps of a template
DefinitionOf(k) ==
    IF schemaCall.entity.queries[k].isOne THEN schemaCall.out.cachedIndexesOne[k]
    ELSE schemaCall.out.cachedIndexes[k]

\* C25: the filter columns of a template are the placeholders that occur
\* before its order by, each once in the order of its first occurrence, and
\* FakeDelete after them when the entity has a soft-delete column and the
\* template a placeholder; the order columns are the placeholders after the
\* order by.
C25_FilterAndOrderColumns ==
    PoolsFound =>
        \A k \in DOMAIN schemaCall.entity.queries :
            LET tokens == schemaCall.entity.queries[k].tokens
                after == variables(AfterOrderBy(tokens))
            IN  /\ DefinitionOf(k).QueryFields =
                        FirstOccurrences(BeforeOrderBy(tokens))
                        \o (IF schemaCall.entity.hasFakeDelete /\ variables(tokens) # << >>
                            THEN << "FakeDelete" >> ELSE << >>)
                /\ DefinitionOf(k).OrderFields = [i \in 1..Len(after) |-> after[i].name]

\* ------------------------------------------------------------------ diff and flush: properties

\* C22: the flush of a new entity builds one insert record with all the
\* declared columns; the flush of an entity whose values all equal its
\* snapshot, and that is not marked for deletion, builds no record and issues
\* no statement.
C22_InsertOnceThenNoOp ==
    flushCall.op = "Flush" =>
        /\ flushCall.snapshot = << >> =>
                /\ Len(flushCall.records) = 1
                /\ flushCall.records[1].action = "insert"
                /\ DOMAIN flushCall.records[1].bind = EntityColumns
                /\ flushCall.records[1].bind = flushCall.current
        /\ (flushCall.snapshot = << flushCall.current >> /\ ~flushCall.toDelete) =>
                /\ flushCall.records = << >>
                /\ flushCall.issued = 0

\* a new entity was flushed and then flushed again unchanged
C22_Witness ==
    /\ flushCall.op = "Flush"
    /\ flushCall.snapshot = << flushCall.current >>
    /\ ~flushCall.toDelete
    /\ flushCall.records = << >>
    /\ statements = 1

\* ------------------------------------------------------------------ handles of one engine: properties

\* C23: the Get calls of one kind and pool code all return the same handle,
\* the engine makes at most one handle of a kind and code, and a call with an
\* unregistered code panics and leaves the handle maps as they were, but for
\* GetLocalCache with the request-cache code, which makes a cache of 5000
\* entries.
C23_OneHandlePerPool ==
    /\ \A k \in HandleKinds, c \in PoolCodes :
            /\ Cardinality(returned[k][c]) <= 1
            /\ handlesMade[k][c] <= 1
            /\ has(handleMaps[k], c) => returned[k][c] = {handleMaps[k][c][1]}
    /\ getCall.op # "none" =>
            LET unregistered == getCall.code \notin serversOf(engineRegistry, getCall.op)
                forRequest == getCall.op = "localCache" /\ getCall.code = requestCacheKey
            IN  /\ unregistered /\ ~forRequest =>
                        getCall.panicked /\ handleMaps = getCall.before
                /\ unregistered /\ forRequest =>
                        ~getCall.panicked /\ getCall.result.limit = 5000
                /\ ~unregistered => ~getCall.panicked

\* a handle was returned a second time, the request cache was made, and the
\* last call panicked
C23_Witness ==
    /\ getCall.op # "none"
    /\ getCall.panicked
    /\ requestCacheKey \notin engineRegistry.localCacheServers
    /\ has(handleMaps["localCache"], requestCacheKey)
    /\ \E k \in HandleKinds, c \in PoolCodes :
            has(getCall.before[k], c) /\ returned[k][c] # {}

\* ------------------------------------------------------------------ metrics plugin: properties

\* the number of queries of a bag
RECURSIVE Total(_)
Total(bag) ==
    IF DOMAIN bag = {} THEN 0
    ELSE LET d == CHOOSE x \in DOMAIN bag : TRUE
         IN  bag[d] + Total([x \in DOMAIN bag \ {d} |-> bag[x]])

\* the durations of a bag, the largest first
RECURSIVE Descending(_)
Descending(bag) ==
    IF DOMAIN bag = {} THEN << >>
    ELSE LET d == CHOOSE x \in DOMAIN bag : \A y \in DOMAIN bag : y <= x
         IN  [i \in 1..bag[d] |-> d] \o Descending([x \in DOMAIN bag \ {d} |-> bag[x]])

\* C24: with a limit K >= 1 of slow queries, after n non-lazy queries since
\* the last clear GetMySQLSlowQueriesStats returns min(n, K) samples, and
\* their durations are the min(n, K) largest durations passed to the handler.
C24_TopSlowQueries ==
    (Quiet /\ options.mySQLSlowQueriesLimit >= 1) =>
        LET m == Min(Total(passed), options.mySQLSlowQueriesLimit)
            samples == GetMySQLSlowQueriesStats
        IN  /\ Len(samples) = m
            /\ [i \in 1..Len(samples) |-> samples[i].Duration]
                    = SubSeq(Descending(passed), 1, m)

\* a goroutine between its look at the counter and the end of its update of
\* the tree and of the counter
InSlowQueries(g) == hpc[g] \in {"insert", "count", "replace"}

\* C28: the updates of the tree of slow queries and of slowQueriesCounter
\* exclude each other: no two goroutines are in them at once, the tree never
\* holds more than K samples and the counter never exceeds K.
C28_SlowQueriesExclusive ==
    /\ \A g1, g2 \in Goroutines : InSlowQueries(g1) /\ InSlowQueries(g2) => g1 = g2
    /\ Len(getChildren(slowQueries)) <= options.mySQLSlowQueriesLimit
    /\ slowQueriesCounter <= options.mySQLSlowQueriesLimit

\* C29: with a limit L of metrics there are never more than L buckets, and
\* after every call of Handle each bucket holds the number and the total
\* duration of the queries that fell into it since it exists.
C29_BucketsCountEveryQuery ==
    /\ Cardinality(DOMAIN queryStats) <= options.mySQLMetricsLimits
    /\ Quiet =>
            \A b \in DOMAIN queryStats :
                /\ queryStats[b].Counter = fallen[b].Counter
                /\ queryStats[b].Time = fallen[b].Time

\* ------------------------------------------------------------------ foreign keys plugin: properties

\* the references the tags select: those tagged fk, or all but those tagged
\* skip when the ORM field is tagged fk
DesiredReferences ==
    LET e == fkSchema.entity
    IN  { c \in Range(e.refs) :
            \/ e.tags[c] = FkTag("true")
            \/ e.orm = FkTag("true") /\ e.tags[c] # FkTag("skip") }

\* the foreign keys found in the database, as the table holds them
FoundKeys == sqlSchema.table.keys

\* a found key that is not desired, or differs from the desired one
ToDrop(n) ==
    \A c \in DesiredReferences : fkName(c) = n => foreignIndex(c) # FoundKeys[n]

\* a desired key that is not found, or differs from the found one
ToAdd(c) ==
    fkName(c) \in DOMAIN FoundKeys => foreignIndex(c) # FoundKeys[fkName(c)]

\* the clauses of the alters of a list
Clauses(alters) ==
    UNION { Range(alters[i].SQL.clauses) : i \in 1..Len(alters) }

\* C30: the pass of the plugin drops every foreign key found in the database
\* that is not desired or differs from the desired one, adds every desired
\* foreign key that is not found or differs, the drops in PreAlters and the
\* adds in PostAlters, and makes no alter when the found keys are the desired.
C30_ForeignKeysFollowTags ==
    sqlSchema.op = "definition" =>
        /\ Clauses(sqlSchema.PreAlters)
                = { [drop |-> n] : n \in { m \in DOMAIN FoundKeys : ToDrop(m) } }
        /\ Clauses(sqlSchema.PostAlters)
                = { [add |-> fkName(c), definition |-> foreignIndex(c)] :
                        c \in { d \in DesiredReferences : ToAdd(d) } }
        /\ \A i \in 1..Len(sqlSchema.PreAlters) : sqlSchema.PreAlters[i].SQL.clauses # << >>
        /\ \A i \in 1..Len(sqlSchema.PostAlters) : sqlSchema.PostAlters[i].SQL.clauses # << >>

====
